---- MODULE Spec2Model ----
(***************************************************************************)
(* Model of the Chain-of-Thought controller of MAU_Backbone                *)
(* (src/src/client/client_lib/cot.py) together with the tool-call detector *)
(* and executor (tooling.py) and the session sandbox (sandbox.py).         *)
(*                                                                         *)
(* Model text is a sequence of tokens.  A token stands for a piece of text *)
(* that the regular expressions and string operations of the code treat as *)
(* a unit: a blank, a word of a given length, the sentinel, a tool call.   *)
(***************************************************************************)
EXTENDS Integers, Sequences, FiniteSets, TLC

VARIABLES
    cfg,              \* CoTConfig of the run (frozen dataclass)
    query,            \* ChainOfThought.query
    pc,               \* position of run_cot: "start", "loop", "returned", "raised"
    error,            \* the exception that left run_cot, "none" while it runs or returned
    state,            \* CoTState
    iters,            \* number of loop iterations begun (model-stream calls made)
    chain,            \* ChainOfThought.chain
    sandbox,          \* SandboxState: topic_anchor, messages, latest_view
    provider_calls,   \* tool ids handed to Tooling.execute_tool_from_text, in order
    list_tools_calls, \* number of Tooling.list_tools() requests
    trace_calls,      \* ReasoningGraph.add_trace calls made by _persist_trace, in order
    dump_file,        \* content of sandbox_messages_dump.txt, NoDump while not written
    hist,             \* per iteration: the model text and the branch run_cot took
    turn_log,         \* per ChainOfThought construction on the session: query, reset, seeded
    reasoning_graph,  \* ReasoningGraph: nodes, successors, query_index
    probe,            \* the last application of a function under study and its result
    disk,             \* the files of the state directories, by path
    save_pc,          \* position of the save in progress and what it writes
    parked            \* a second invocation of run_cot that waits at an await

\* the state outside one controller run
others == <<turn_log, reasoning_graph, probe, disk, save_pc, parked>>

vars == <<cfg, query, pc, error, state, iters, chain, sandbox, provider_calls,
          list_tools_calls, trace_calls, dump_file, hist, others>>

-----------------------------------------------------------------------------
(* Bounds of the model *)

\* max_iters ranges over 0..MaxItersBound
MaxItersBound == 3
\* max_tool_steps ranges over 0..MaxToolStepsBound
MaxToolStepsBound == 2
\* max_finalize_nudges ranges over 0..MaxFinalizeNudgesBound
MaxFinalizeNudgesBound == 1

-----------------------------------------------------------------------------
(* Program constants *)

\* cot.py:204 "prefix_len < 12"
MinJustificationLen == 12
\* cot.py:204 "state.justification_nudges < 3"
MaxJustificationNudges == 3
\* cot.py:233 "len(prefix) > 8"
MinPrefixLen == 8
\* cot.py:477 "text.strip()[:500]"
SummaryLimit == 500
\* len of the literal of cot.py:476
SummaryPrefixLen == 93

None == "None"
NoDump == <<"NoDump">>

\* cot.py:29
COT_END_PROMPT == "END"

-----------------------------------------------------------------------------
(* Tokens of model text *)

\* well-formed tool calls: text that TOOL_PATTERN matches and json.loads accepts
CallTokens == {"callA", "callA2", "callB"}
\* text that TOOL_PATTERN matches but whose arguments json.loads rejects
BadCallTokens == {"callBad"}
\* text that starts like a tool object, {"name": "..., but is no full call
ShapeTokens == {"shape"}
WordTokens == {"x", "w9", "w12"}

TokLen(tok) ==
    CASE tok = "ws" -> 1
      [] tok = "x" -> 1
      [] tok = "w9" -> 9
      [] tok = "w12" -> 12
      [] tok = "w70" -> 70
      [] tok = "w200" -> 200
      [] tok = COT_END_PROMPT -> 18
      [] tok = "SUMMARY" -> SummaryPrefixLen
      [] OTHER -> 30

RECURSIVE TextLen(_)
TextLen(text) ==
    IF text = <<>> THEN 0 ELSE TokLen(Head(text)) + TextLen(Tail(text))

\* the name and the arguments object as written in the call, key order kept
ToolName(tok) ==
    CASE tok = "callA" -> "list_nodes"
      [] tok = "callA2" -> "list_nodes"
      [] tok = "callB" -> "get_node"

ToolArgs(tok) ==
    CASE tok = "callA" -> << <<"a", 1>>, <<"b", 2>> >>
      [] tok = "callA2" -> << <<"b", 2>>, <<"a", 1>> >>
      [] tok = "callB" -> << >>

KeyOrd(k) == CASE k = "a" -> 1 [] k = "b" -> 2

\* the model outputs an iteration may receive
ModelTexts == {
    <<"w12", "ws", "callA">>,
    <<"w12", "ws", "callA2">>,
    <<"w9", "ws", "callA">>,
    <<"w12", "ws", "callB">>,
    <<"w12">>,
    <<"shape">>,
    <<"w12", "ws", "callBad">>,
    <<"ws", "w9", "ws", COT_END_PROMPT, "ws", "x">>,
    <<"w12", "ws", "callA", "ws", COT_END_PROMPT>>,
    <<"w12", "ws", "callA", "ws", "callB">>
}

\* what the tool provider does with one call
ToolBehaviours ==
    {"unknown_tool", "call_raises", "empty_content", "bad_json", "ok_table", "ok_noview"}

Queries == {<<"Q1">>}

-----------------------------------------------------------------------------
(* String helpers *)

\* str.find: index of the first occurrence, 0 when there is none
Find(text, toks) ==
    IF \E i \in 1..Len(text) : text[i] \in toks
    THEN CHOOSE i \in 1..Len(text) :
            /\ text[i] \in toks
            /\ \A j \in 1..(i - 1) : text[j] \notin toks
    ELSE 0

RECURSIVE lstrip(_)
lstrip(text) ==
    IF text # <<>> /\ Head(text) = "ws" THEN lstrip(Tail(text)) ELSE text

RECURSIVE rstrip(_)
rstrip(text) ==
    IF text # <<>> /\ text[Len(text)] = "ws"
    THEN rstrip(SubSeq(text, 1, Len(text) - 1))
    ELSE text

strip(text) == lstrip(rstrip(text))

\* text[:n] in characters; a token is kept when it fits whole
RECURSIVE Truncate(_, _)
Truncate(text, n) ==
    IF text = <<>> \/ TokLen(Head(text)) > n THEN <<>>
    ELSE <<Head(text)>> \o Truncate(Tail(text), n - TokLen(Head(text)))

-----------------------------------------------------------------------------
(* Messages and the sandbox *)

NoAnchor == [some |-> FALSE, text |-> <<>>]

UserRequest(q) ==
    [type |-> "ModelRequest", model_name |-> "", tool |-> None,
     content |-> q, by |-> "user"]

\* a ModelResponse named ChainOfThought:Model:<agent>; by records the appender
ModelResponse(content, by) ==
    [type |-> "ModelResponse", model_name |-> "Model", tool |-> None,
     content |-> content, by |-> by]

\* a ModelResponse named ChainOfThought:Tool:<tool_used>
ToolResponse(content, tool_used) ==
    [type |-> "ModelResponse", model_name |-> "Tool", tool |-> tool_used,
     content |-> content, by |-> "tool"]

SandboxState == [topic_anchor |-> NoAnchor, messages |-> <<>>, latest_view |-> None]

reset(sb, q) ==
    [topic_anchor |-> [some |-> TRUE, text |-> q],
     messages |-> <<>>,
     latest_view |-> None]

\* "if view:" - None and the empty string leave latest_view alone
extend(sb, message, view) ==
    [sb EXCEPT !.messages = Append(@, message),
               !.latest_view = IF view # None /\ view # "" THEN view ELSE @]

\* the pair (chain, sandbox) that _append updates in one place
_append(st, msg, view) ==
    [chain |-> Append(st.chain, msg), sandbox |-> extend(st.sandbox, msg, view)]

_append_model_text(st, text) == _append(st, ModelResponse(text, "text"), None)

_append_model_note(st, note) == _append(st, ModelResponse(<<note>>, "note"), None)

\* content of the last ModelResponse of the sandbox, <<"None">> when there is none
LastResponseContent(sb) ==
    LET idx == {i \in 1..Len(sb.messages) : sb.messages[i].type = "ModelResponse"}
    IN  IF idx = {} THEN <<None>>
        ELSE sb.messages[CHOOSE i \in idx : \A j \in idx : j <= i].content

-----------------------------------------------------------------------------
(* Tool-call detection (tooling.py) and the text predicates of cot.py *)

IsPatternMatch(tok) == tok \in CallTokens \cup BadCallTokens

PatternMatches(text) == SelectSeq(text, IsPatternMatch)

\* json.loads(match[1]) raises for a malformed arguments object; nothing catches it
DetectRaises(text) ==
    \E i \in 1..Len(PatternMatches(text)) : PatternMatches(text)[i] \in BadCallTokens

detect_tool_calls(text) ==
    LET m == PatternMatches(text)
    IN  [i \in 1..Len(m) |->
            [tool_name |-> ToolName(m[i]), arguments |-> ToolArgs(m[i])]]

\* variant: text.endswith(COT_END_PROMPT) instead of "in"
_contains_final_answer_at_end(text) ==
    text # <<>> /\ text[Len(text)] = COT_END_PROMPT

_contains_final_answer(text) == \E i \in 1..Len(text) : text[i] = COT_END_PROMPT

_looks_like_tool_json(text) ==
    \E i \in 1..Len(text) : text[i] \in CallTokens \cup BadCallTokens \cup ShapeTokens

\* re.search(r'`?\{\s*"name"\s*:\s*"', text): start of the first match, 0 if none
FirstJsonStart(text) == Find(text, CallTokens \cup BadCallTokens \cup ShapeTokens)

\* json.dumps(arguments, sort_keys=True): the pairs in key order
RECURSIVE InsertPair(_, _)
InsertPair(pair, sorted) ==
    IF sorted = <<>> THEN <<pair>>
    ELSE IF KeyOrd(pair[1]) <= KeyOrd(Head(sorted)[1]) THEN <<pair>> \o sorted
    ELSE <<Head(sorted)>> \o InsertPair(pair, Tail(sorted))

RECURSIVE SortKeys(_)
SortKeys(args) ==
    IF args = <<>> THEN <<>> ELSE InsertPair(Head(args), SortKeys(Tail(args)))

NoToolId == [name |-> None, args |-> <<>>]

\* variant: json.dumps without sort_keys, the pairs as written
_canonical_tool_id_unsorted(tool_name, arguments) ==
    [name |-> tool_name, args |-> arguments]

_canonical_tool_id(tool_name, arguments) ==
    [name |-> tool_name, args |-> SortKeys(arguments)]

\* variant: compares with the last executed call only
_is_duplicate_tool_call_last_only(tool_id, s) == tool_id = s.last_tool_id

_is_duplicate_tool_call(tool_id, s) ==
    tool_id \in s.executed_tool_calls \/ tool_id = s.last_tool_id

\* variant: text[:end_idx] without rstrip
FinalText_unstripped(text) == SubSeq(text, 1, Find(text, {COT_END_PROMPT}) - 1)

\* text[:end_idx].rstrip() with end_idx = text.find(COT_END_PROMPT)
FinalText(text) ==
    rstrip(SubSeq(text, 1, Find(text, {COT_END_PROMPT}) - 1))

_emit_final_answer(st, text) == _append(st, ModelResponse(FinalText(text), "final"), None)

\* variant: the raw text is not cut
SummaryWithSentinel_untruncated(text) ==
    <<"SUMMARY">> \o strip(text) \o <<"ws", COT_END_PROMPT>>

\* the summary of _force_summarized_exit with the sentinel appended
SummaryWithSentinel(text) ==
    <<"SUMMARY">> \o Truncate(strip(text), SummaryLimit) \o <<"ws", COT_END_PROMPT>>

\* the arguments of the add_trace call that _persist_trace makes
TraceOf(ch, q, final_resp) ==
    LET tools == SelectSeq(ch, LAMBDA m : m.type = "ModelResponse" /\ m.model_name = "Tool")
    IN  [query |-> q,
         tool_calls |-> [i \in 1..Len(tools) |-> <<tools[i].tool, tools[i].content>>],
         final_answer |-> final_resp.content]

CoTState ==
    [iteration |-> 0, tools_run |-> 0, mode |-> "INTERACTIVE", finalize_nudges |-> 0,
     executed_tool_calls |-> {}, last_tool_id |-> NoToolId, justification_nudges |-> 0]

CoTConfigs ==
    [max_iters : 0..MaxItersBound,
     max_tool_steps : 0..MaxToolStepsBound,
     max_finalize_nudges : 0..MaxFinalizeNudgesBound,
     auto_finalize_after_tool : BOOLEAN]

-----------------------------------------------------------------------------
(* The reasoning graph (reasoning.py) *)

\* reasoning.py:97 "threshold=0.85", in hundredths
MatchThreshold == 85

\* str.lower on one symbol of a query
Lower(sym) == IF sym = "List" THEN "list" ELSE sym

\* the order of the characters of the symbols, as sorted() compares them
SymOrd(sym) ==
    CASE sym = "Q1" -> 1
      [] sym = "a" -> 2
      [] sym = "b" -> 3
      [] sym = "c" -> 4
      [] sym = "d" -> 5
      [] sym = "list" -> 6
      [] sym = "nodes" -> 7
      [] sym = "x" -> 8
      [] sym = "y" -> 9

\* str.split(): the words between the blanks, no empty word
RECURSIVE split(_)
split(text) ==
    LET t == lstrip(text)
        n == Find(t, {"ws"})
    IN  IF t = <<>> THEN <<>>
        ELSE IF n = 0 THEN <<t>>
        ELSE <<SubSeq(t, 1, n - 1)>> \o split(SubSeq(t, n + 1, Len(t)))

\* w1 <= w2 for two words
RECURSIVE WordLeq(_, _)
WordLeq(w1, w2) ==
    IF w1 = <<>> THEN TRUE
    ELSE IF w2 = <<>> THEN FALSE
    ELSE IF Head(w1) = Head(w2) THEN WordLeq(Tail(w1), Tail(w2))
    ELSE SymOrd(Head(w1)) < SymOrd(Head(w2))

RECURSIVE InsertWord(_, _)
InsertWord(w, ws) ==
    IF ws = <<>> THEN <<w>>
    ELSE IF WordLeq(w, Head(ws)) THEN <<w>> \o ws
    ELSE <<Head(ws)>> \o InsertWord(w, Tail(ws))

RECURSIVE sorted(_)
sorted(ws) == IF ws = <<>> THEN <<>> ELSE InsertWord(Head(ws), sorted(Tail(ws)))

\* " ".join(tokens)
RECURSIVE join(_)
join(ws) ==
    IF ws = <<>> THEN <<>>
    ELSE IF Len(ws) = 1 THEN Head(ws)
    ELSE Head(ws) \o <<"ws">> \o join(Tail(ws))

\* variant: the lowercase tokens in the order of the query
_canonicalize_unsorted(q) ==
    [kind |-> "query", key |-> join(split([i \in 1..Len(q) |-> Lower(q[i])]))]

\* the sha256 of the sorted lowercase tokens; the digest stands for its text
_canonicalize(q) ==
    [kind |-> "query", key |-> join(sorted(split([i \in 1..Len(q) |-> Lower(q[i])])))]

\* f"{tool_name}:{md5(str(args))}" with args = {"raw_text": <content>}
tool_node_id(tool_name, args) == [kind |-> "tool", key |-> <<tool_name, ":">> \o args]

\* f"answer:{md5(final_answer)}"
answer_node_id(final_answer) == [kind |-> "answer", key |-> final_answer]

\* DiGraph.add_node: a new node has no successor; the attributes of a known one are
\* overwritten
add_node(g, id, attributes) ==
    [g EXCEPT !.nodes = @ \cup {id},
              !.attrs = [n \in g.nodes \cup {id} |-> IF n = id THEN attributes ELSE g.attrs[n]],
              !.succ = [n \in g.nodes \cup {id} |-> IF n \in g.nodes THEN g.succ[n] ELSE <<>>]]

\* DiGraph.add_edge between two nodes of the graph: a known edge keeps its place among
\* the successors
add_edge(g, u, v) ==
    IF \E i \in 1..Len(g.succ[u]) : g.succ[u][i] = v THEN g
    ELSE [g EXCEPT !.succ[u] = Append(@, v)]

\* self.query_index[q_id] = query: a known key keeps its place in the dict
SetIndex(index, q_id, q) ==
    IF \E i \in 1..Len(index) : index[i].id = q_id
    THEN [i \in 1..Len(index) |-> IF index[i].id = q_id THEN [id |-> q_id, text |-> q]
                                  ELSE index[i]]
    ELSE Append(index, [id |-> q_id, text |-> q])

\* reasoning.py:85-90: the tool nodes of the trace, chained from prev
RECURSIVE ChainTools(_, _, _)
ChainTools(g, prev, tool_calls) ==
    IF tool_calls = <<>> THEN [g |-> g, prev |-> prev]
    ELSE LET tool_id == tool_node_id(Head(tool_calls)[1], Head(tool_calls)[2])
             g1 == add_node(g, tool_id,
                            [type |-> "tool", text |-> <<>>, tool |-> Head(tool_calls)[1]])
         IN  ChainTools(add_edge(g1, prev, tool_id), tool_id, Tail(tool_calls))

add_trace(g, q, tool_calls, final_answer) ==
    LET q_id == _canonicalize(q)
        g0 == add_node([g EXCEPT !.query_index = SetIndex(@, q_id, q)], q_id,
                       [type |-> "query", text |-> q, tool |-> None])
        c == ChainTools(g0, q_id, tool_calls)
        g2 == IF final_answer # <<>>
              THEN add_edge(add_node(c.g, answer_node_id(final_answer),
                                     [type |-> "answer", text |-> final_answer, tool |-> None]),
                            c.prev, answer_node_id(final_answer))
              ELSE c.g
    IN  [g2 EXCEPT !.added = Append(@, [query |-> q, tool_calls |-> tool_calls,
                                        final_answer |-> final_answer])]

NoMatch == [kind |-> "none", key |-> <<>>]

\* the loop of match_query over the query index; scores[i] is the cosine similarity,
\* in hundredths, of the query and the i-th exemplar
RECURSIVE BestMatch(_, _, _, _)
BestMatch(index, scores, i, best) ==
    IF i > Len(index) THEN best
    ELSE BestMatch(index, scores, i + 1,
                   IF scores[i] > best.score
                   THEN [score |-> scores[i], match |-> index[i].id] ELSE best)

\* variant: the best exemplar whatever its score
match_query_any_score(g, scores, threshold) ==
    BestMatch(g.query_index, scores, 1, [score |-> 0, match |-> NoMatch]).match

match_query(g, scores, threshold) ==
    LET best == BestMatch(g.query_index, scores, 1, [score |-> 0, match |-> NoMatch])
    IN  IF best.score >= threshold THEN best.match ELSE NoMatch

\* the while loop of get_plan: the first successor is followed until a node has none;
\* a walk of more steps than the graph has nodes has come back to a node and goes on
\* for ever
RECURSIVE Walk(_, _, _, _)
Walk(g, current, path, fuel) ==
    IF g.succ[current] = <<>> THEN [returned |-> TRUE, none |-> FALSE, path |-> path]
    ELSE IF fuel = 0 THEN [returned |-> FALSE, none |-> FALSE, path |-> <<>>]
    ELSE LET next_node == g.succ[current][1]
         IN  Walk(g, next_node, Append(path, g.attrs[next_node].tool), fuel - 1)

get_plan(g, scores) ==
    LET q_id == match_query(g, scores, MatchThreshold)
    IN  IF q_id = NoMatch THEN [returned |-> TRUE, none |-> TRUE, path |-> <<>>]
        ELSE Walk(g, q_id, <<>>, Cardinality(g.nodes))

\* cosine similarities in hundredths
ScoreLevels == {0, 50, 90}

\* the similarities the embedder can give the query against the exemplars of the index:
\* an exemplar with the very text of the query scores 1.0
ScoresFor(g, q) ==
    {sc \in [1..Len(g.query_index) -> ScoreLevels \cup {100}] :
        \A i \in 1..Len(g.query_index) : (sc[i] = 100) <=> (g.query_index[i].text = q)}

\* no plan: the lookup matched nothing, or the path holds no tool name
NoPlan == [some |-> FALSE, steps |-> <<>>]

\* cot.py:104-112: the entries that are None or empty are dropped, and an empty list
\* counts as no plan; expected_tool_steps is the length of steps
CleanPlan(raw_plan) ==
    LET cleaned == SelectSeq(raw_plan.path, LAMBDA p : p # None)
    IN  IF raw_plan.none \/ cleaned = <<>> THEN NoPlan
        ELSE [some |-> TRUE, steps |-> cleaned]

\* variant: the trace is not recorded
_persist_trace_skipped(g, ch, q) == g

\* _persist_trace: the trace of the chain, whose last message is the final answer,
\* goes into the reasoning graph
_persist_trace(g, ch, q) ==
    LET t == TraceOf(ch, q, ch[Len(ch)])
    IN  add_trace(g, t.query, t.tool_calls, t.final_answer)

-----------------------------------------------------------------------------
(* The state outside the run, as the first request of a process finds it *)

\* ReasoningGraph(): an empty DiGraph and an empty query index; added is the history
\* of the add_trace calls made on it
ReasoningGraph == [nodes |-> {}, attrs |-> <<>>, succ |-> <<>>, query_index |-> <<>>,
                   added |-> <<>>]

NoProbe == [fn |-> "none"]

\* no state file written yet
NoFiles == <<>>

\* no save in progress
Idle == [at |-> "idle"]

\* no second invocation
NoInvocation == [id |-> 0]

-----------------------------------------------------------------------------
(* The run: ChainOfThought.__init__ and run_cot *)

Store == [chain |-> chain, sandbox |-> sandbox]

\* the statements every loop iteration starts with: the loop variable and one stream
BeginIteration(text) ==
    /\ pc = "loop"
    /\ iters < cfg.max_iters
    /\ text \in ModelTexts
    /\ iters' = iters + 1

Log(text, branch) ==
    hist' = Append(hist, [text |-> text, mode |-> state.mode, branch |-> branch])

\* a fresh session: is_same_topic is false for the unset anchor, so __init__ resets the
\* sandbox to the query and seeds the user request; the graph is empty, so no plan
Init ==
    /\ cfg \in CoTConfigs
    /\ pc = "start"
    /\ error = "none"
    /\ state = CoTState
    /\ iters = 0
    /\ query \in Queries
    /\ LET q == query IN
          LET st == _append([chain |-> <<>>, sandbox |-> reset(SandboxState, q)],
                            UserRequest(q), None)
          IN  chain = st.chain /\ sandbox = st.sandbox
    /\ provider_calls = <<>>
    /\ list_tools_calls = 0
    /\ trace_calls = <<>>
    /\ dump_file = NoDump
    /\ hist = <<>>
    /\ turn_log = <<[query |-> query, reset |-> TRUE, seeded |-> TRUE, plan |-> NoPlan]>>
    /\ reasoning_graph = ReasoningGraph
    /\ probe = NoProbe
    /\ disk = NoFiles
    /\ save_pc = Idle
    /\ parked = NoInvocation

\* _build_system_prompt: tool_summaries is None, so the catalogue is requested
BuildSystemPrompt ==
    /\ pc = "start"
    /\ pc' = "loop"
    /\ list_tools_calls' = list_tools_calls + 1
    /\ UNCHANGED <<others, cfg, query, error, state, iters, chain, sandbox, provider_calls,
                   trace_calls, dump_file, hist>>

\* the sentinel is in the text: emit the final answer, persist the trace, return
IterFinalAnswer(text) ==
    /\ BeginIteration(text)
    /\ _contains_final_answer(text)
    /\ LET st == _emit_final_answer(Store, text)
       IN  /\ chain' = st.chain
           /\ sandbox' = st.sandbox
           /\ trace_calls' = Append(trace_calls,
                                    TraceOf(st.chain, query, st.chain[Len(st.chain)]))
           /\ reasoning_graph' = _persist_trace(reasoning_graph, st.chain, query)
    /\ state' = [state EXCEPT !.iteration = iters]
    /\ pc' = "returned"
    /\ Log(text, "final")
    /\ UNCHANGED <<turn_log, parked, probe, disk, save_pc>>
    /\ UNCHANGED <<cfg, query, error, provider_calls, list_tools_calls, dump_file>>

\* variant: >= instead of >
ExceedsNudges_from_budget(nudges, max_finalize_nudges) == nudges >= max_finalize_nudges

\* cot.py:180
ExceedsNudges(nudges, max_finalize_nudges) == nudges > max_finalize_nudges

\* FINALIZING and the text looks like a tool call: nudge, and past the budget force
\* the summarized exit
IterFinalizeNudge(text) ==
    /\ BeginIteration(text)
    /\ ~_contains_final_answer(text)
    /\ state.mode = "FINALIZING"
    /\ _looks_like_tool_json(text)
    /\ state' = [state EXCEPT !.iteration = iters, !.finalize_nudges = @ + 1]
    /\ LET noted == _append_model_note(Store, "NOTE_NO_TOOLS_IN_FINALIZE")
       IN  IF ExceedsNudges(state'.finalize_nudges, cfg.max_finalize_nudges)
           THEN LET st == _emit_final_answer(noted, SummaryWithSentinel(text))
                IN  /\ chain' = st.chain
                    /\ sandbox' = st.sandbox
                    /\ trace_calls' = Append(trace_calls,
                                         TraceOf(st.chain, query, st.chain[Len(st.chain)]))
                    /\ reasoning_graph' = _persist_trace(reasoning_graph, st.chain, query)
                    /\ pc' = "returned"
                    /\ Log(text, "forced_exit")
           ELSE /\ chain' = noted.chain
                /\ sandbox' = noted.sandbox
                /\ trace_calls' = trace_calls
                /\ reasoning_graph' = reasoning_graph
                /\ pc' = "loop"
                /\ Log(text, "finalize_nudge")
    /\ UNCHANGED <<turn_log, parked, probe, disk, save_pc>>
    /\ UNCHANGED <<cfg, query, error, provider_calls, list_tools_calls, dump_file>>

\* FINALIZING and plain text: append it as model text
IterFinalizeText(text) ==
    /\ BeginIteration(text)
    /\ ~_contains_final_answer(text)
    /\ state.mode = "FINALIZING"
    /\ ~_looks_like_tool_json(text)
    /\ state' = [state EXCEPT !.iteration = iters]
    /\ LET st == _append_model_text(Store, text)
       IN  chain' = st.chain /\ sandbox' = st.sandbox
    /\ pc' = "loop"
    /\ Log(text, "finalize_text")
    /\ UNCHANGED <<others, cfg, query, error, provider_calls, list_tools_calls, trace_calls, dump_file>>

\* INTERACTIVE and Tooling.detect_tool_calls raises: the exception leaves run_cot
IterDetectRaises(text) ==
    /\ BeginIteration(text)
    /\ ~_contains_final_answer(text)
    /\ state.mode = "INTERACTIVE"
    /\ DetectRaises(text)
    /\ state' = [state EXCEPT !.iteration = iters]
    /\ pc' = "raised"
    /\ error' = "JSONDecodeError"
    /\ Log(text, "detect_raised")
    /\ UNCHANGED <<others, cfg, query, chain, sandbox, provider_calls, list_tools_calls,
                   trace_calls, dump_file>>

\* INTERACTIVE and no tool call detected
IterNoToolCall(text) ==
    /\ BeginIteration(text)
    /\ ~_contains_final_answer(text)
    /\ state.mode = "INTERACTIVE"
    /\ ~DetectRaises(text)
    /\ detect_tool_calls(text) = <<>>
    /\ state' = [state EXCEPT !.iteration = iters]
    /\ LET st == _append_model_note(Store, "NOTE_NEED_TOOL_OR_FINAL")
       IN  chain' = st.chain /\ sandbox' = st.sandbox
    /\ pc' = "loop"
    /\ Log(text, "need_tool")
    /\ UNCHANGED <<others, cfg, query, error, provider_calls, list_tools_calls, trace_calls, dump_file>>

\* variant: the last detected call is taken
FirstCall_last(text) == detect_tool_calls(text)[Len(detect_tool_calls(text))]

\* the first detected call and its canonical id
FirstCall(text) == detect_tool_calls(text)[1]

FirstToolId(text) ==
    _canonical_tool_id(FirstCall(text).tool_name, FirstCall(text).arguments)

\* len(text[:m_first.start()].strip())
PrefixLen(text) == TextLen(strip(SubSeq(text, 1, FirstJsonStart(text) - 1)))

\* variant: no budget of justification nudges
NeedsJustification_unbounded(text, s) ==
    /\ FirstJsonStart(text) # 0
    /\ PrefixLen(text) < MinJustificationLen

\* cot.py:204, the condition of the justification nudge
NeedsJustification(text, s) ==
    /\ FirstJsonStart(text) # 0
    /\ PrefixLen(text) < MinJustificationLen
    /\ s.justification_nudges < MaxJustificationNudges

\* variant: the FINALIZING branch falls through to the detection
Detected_any_mode(text) ==
    /\ ~_contains_final_answer(text)
    /\ ~DetectRaises(text)
    /\ detect_tool_calls(text) # <<>>

Detected(text) ==
    /\ ~_contains_final_answer(text)
    /\ state.mode = "INTERACTIVE"
    /\ ~DetectRaises(text)
    /\ detect_tool_calls(text) # <<>>

\* too little text before the call: ask for a justification, execute nothing
IterJustificationNudge(text) ==
    /\ BeginIteration(text)
    /\ Detected(text)
    /\ NeedsJustification(text, state)
    /\ state' = [state EXCEPT !.iteration = iters, !.justification_nudges = @ + 1]
    /\ LET st == _append_model_note(Store, "NOTE_JUSTIFY")
       IN  chain' = st.chain /\ sandbox' = st.sandbox
    /\ pc' = "loop"
    /\ Log(text, "justify")
    /\ UNCHANGED <<others, cfg, query, error, provider_calls, list_tools_calls, trace_calls, dump_file>>

\* a duplicate of an executed call: enter FINALIZING, execute nothing
IterDuplicate(text) ==
    /\ BeginIteration(text)
    /\ Detected(text)
    /\ ~NeedsJustification(text, state)
    /\ _is_duplicate_tool_call(FirstToolId(text), state)
    /\ state' = [state EXCEPT !.iteration = iters, !.mode = "FINALIZING"]
    /\ LET st == _append_model_note(Store, "NOTE_DUPLICATE_BLOCKED")
       IN  chain' = st.chain /\ sandbox' = st.sandbox
    /\ pc' = "loop"
    /\ Log(text, "duplicate")
    /\ UNCHANGED <<others, cfg, query, error, provider_calls, list_tools_calls, trace_calls, dump_file>>

\* variant: nothing of the model text is appended before the tool runs
RecordReasoning_nothing(st, text) == st

\* cot.py:218-257: the explanation before the call and the call text are appended,
\* each unless it repeats the last ModelResponse of the sandbox
RecordReasoning(st, text) ==
    LET m == FirstJsonStart(text)
        prefix == strip(SubSeq(text, 1, m - 1))
        json_block == strip(SubSeq(text, m, Len(text)))
        st1 == IF /\ prefix # <<>>
                  /\ TextLen(prefix) > MinPrefixLen
                  /\ prefix # LastResponseContent(st.sandbox)
               THEN _append_model_text(st, prefix) ELSE st
    IN  IF json_block # <<>> /\ json_block # LastResponseContent(st1.sandbox)
        THEN _append_model_text(st1, json_block) ELSE st1

\* Tooling.execute_tool_from_text on the minimal JSON of one call: list_tools, the
\* lookup by name, call_tool and the decoding of the result.  list_tools and call_tool
\* catch their exceptions; json.loads of the result content is not guarded.  The
\* response of a decoded result is text (ToolWithView.response, servers/server.py).
execute_tool_from_text(tool_name, behaviour) ==
    CASE behaviour \in {"unknown_tool", "call_raises"} ->
            [raised |-> FALSE, results |-> <<>>]
      [] behaviour \in {"empty_content", "bad_json"} ->
            [raised |-> TRUE, results |-> <<>>]
      [] behaviour = "ok_table" ->
            [raised |-> FALSE, results |-> << <<"table", <<"RESULT">>, tool_name>> >>]
      [] behaviour = "ok_noview" ->
            [raised |-> FALSE, results |-> << <<None, <<"RESULT">>, tool_name>> >>]

\* cot.py:563-564
MarkExecuted(s, tool_id) ==
    [s EXCEPT !.executed_tool_calls = @ \cup {tool_id}, !.last_tool_id = tool_id]

\* variant: a call without outcome is not remembered
AfterNoResult_unmarked(s, tool_id) == s

\* variant: a call without outcome counts as a tool step
AfterNoResult_counted(s, tool_id) ==
    [MarkExecuted(s, tool_id) EXCEPT !.tools_run = @ + 1]

\* the state after a call that yielded no outcome: _execute_tool has recorded the call
\* and returns False; run_cot counts no tool step and leaves the mode alone
AfterNoResult(s, tool_id) == MarkExecuted(s, tool_id)

\* variant: the auto_finalize_after_tool flag is ignored
ModeAfterTool_cap_only(s, c) ==
    IF s.tools_run >= c.max_tool_steps THEN "FINALIZING" ELSE s.mode

\* cot.py:569-576: one tool message per outcome, each with its view
RECURSIVE AppendOutcomes(_, _)
AppendOutcomes(st, results) ==
    IF results = <<>> THEN st
    ELSE AppendOutcomes(
            _append(st, ToolResponse(Head(results)[2], Head(results)[3]), Head(results)[1]),
            Tail(results))

\* variant: the cap compared with > instead of >=
ReachedCap_strict(tools_run, max_tool_steps) == tools_run > max_tool_steps

\* cot.py:274
ReachedCap(tools_run, max_tool_steps) == tools_run >= max_tool_steps

\* cot.py:266-276: the mode after a successful tool step that raised tools_run
ModeAfterTool(s, c) ==
    IF c.auto_finalize_after_tool THEN "FINALIZING"
    ELSE IF ReachedCap(s.tools_run, c.max_tool_steps) THEN "FINALIZING"
    ELSE s.mode

\* a new, justified call: record the reasoning and execute exactly one tool call
IterExecuteTool(text, behaviour) ==
    /\ BeginIteration(text)
    /\ Detected(text)
    /\ ~NeedsJustification(text, state)
    /\ ~_is_duplicate_tool_call(FirstToolId(text), state)
    /\ behaviour \in ToolBehaviours
    /\ LET tool_id == FirstToolId(text)
           recorded == RecordReasoning(Store, text)
           res == execute_tool_from_text(FirstCall(text).tool_name, behaviour)
       IN  /\ provider_calls' = Append(provider_calls, tool_id)
           /\ list_tools_calls' = list_tools_calls + 1
           /\ IF res.raised
              THEN /\ state' = [state EXCEPT !.iteration = iters]
                   /\ chain' = recorded.chain
                   /\ sandbox' = recorded.sandbox
                   /\ pc' = "raised"
                   /\ error' = "JSONDecodeError"
                   /\ Log(text, "tool_raised")
              ELSE IF res.results = <<>>
              THEN LET st == _append_model_note(recorded, "NOTE_NO_RESULT")
                   IN  /\ state' = AfterNoResult([state EXCEPT !.iteration = iters], tool_id)
                       /\ chain' = st.chain
                       /\ sandbox' = st.sandbox
                       /\ pc' = "loop"
                       /\ error' = error
                       /\ Log(text, "soft_fail")
              ELSE LET hinted == _append_model_note(AppendOutcomes(recorded, res.results),
                                                    "NOTE_SUMMARIZE_OR_PROCEED")
                       ran == [MarkExecuted([state EXCEPT !.iteration = iters], tool_id)
                                  EXCEPT !.tools_run = @ + 1]
                       st == IF cfg.auto_finalize_after_tool
                             THEN _append_model_note(hinted, "NOTE_TOOL_STEP_COMPLETE")
                             ELSE IF ReachedCap(ran.tools_run, cfg.max_tool_steps)
                             THEN _append_model_note(hinted, "NOTE_MAX_TOOL_STEPS")
                             ELSE hinted
                   IN  /\ state' = [ran EXCEPT !.mode = ModeAfterTool(ran, cfg)]
                       /\ chain' = st.chain
                       /\ sandbox' = st.sandbox
                       /\ pc' = "loop"
                       /\ error' = error
                       /\ Log(text, "tool_ok")
    /\ UNCHANGED <<others, cfg, query, trace_calls, dump_file>>

\* variant: only the ModelResponse messages are dumped
_dump_history_responses_only(sb) ==
    LET r == SelectSeq(sb.messages, LAMBDA m : m.type = "ModelResponse")
    IN  [i \in 1..Len(r) |-> r[i].content]

\* the content written to sandbox_messages_dump.txt
_dump_history(sb) == [i \in 1..Len(sb.messages) |-> sb.messages[i].content]

\* the loop ran max_iters times without returning: dump the history and raise
MaxItersExceeded ==
    /\ pc = "loop"
    /\ iters >= cfg.max_iters
    /\ dump_file' = _dump_history(sandbox)
    /\ pc' = "raised"
    /\ error' = "RuntimeError"
    /\ UNCHANGED <<others, cfg, query, state, iters, chain, sandbox, provider_calls,
                   list_tools_calls, trace_calls, hist>>

Next ==
    \/ BuildSystemPrompt
    \/ \E text \in ModelTexts :
          \/ IterFinalAnswer(text)
          \/ IterFinalizeNudge(text)
          \/ IterFinalizeText(text)
          \/ IterDetectRaises(text)
          \/ IterNoToolCall(text)
          \/ IterJustificationNudge(text)
          \/ IterDuplicate(text)
          \/ \E behaviour \in ToolBehaviours : IterExecuteTool(text, behaviour)
    \/ MaxItersExceeded

Spec == Init /\ [][Next]_vars

-----------------------------------------------------------------------------
(* Helpers of the properties *)

Last(seq) == seq[Len(seq)]

\* the messages a step appended to the chain
Appended == SubSeq(chain', Len(chain) + 1, Len(chain'))

AppendedBy(who) == \E i \in 1..Len(Appended) : Appended[i].by = who

\* a step that ran one loop iteration
IterationStep == hist' # hist

HasSentinel(text) == \E i \in 1..Len(text) : text[i] = "END"

\* the text holds a well-formed tool call and no malformed one, and no sentinel
ProposesCall(text) ==
    /\ ~HasSentinel(text)
    /\ \E i \in 1..Len(text) : text[i] \in CallTokens
    /\ \A i \in 1..Len(text) : text[i] \notin BadCallTokens

\* the first tool call that a text proposes
ProposedToken(text) == text[Find(text, CallTokens)]

\* same tool name and the same key/value pairs, in whatever order they are written
SameCall(tok1, tok2) ==
    /\ ToolName(tok1) = ToolName(tok2)
    /\ {ToolArgs(tok1)[i] : i \in 1..Len(ToolArgs(tok1))}
         = {ToolArgs(tok2)[i] : i \in 1..Len(ToolArgs(tok2))}

ExecutedBranches == {"tool_ok", "soft_fail", "tool_raised"}

\* the mode at the end of iteration i
ModeAfter(i) == IF i < Len(hist) THEN hist[i + 1].mode ELSE state.mode

FinalAnswers == {i \in 1..Len(chain) : chain[i].by = "final"}

-----------------------------------------------------------------------------
(* C1 *)

\* C1: a run performs at most max_iters model-stream iterations and ends either by
\* returning after appending exactly one final-answer message or by raising the
\* max_iters error after exactly max_iters iterations; no other exception and no
\* return without a final answer is reachable.
C1_OnlyTwoOutcomes ==
    /\ iters <= cfg.max_iters
    /\ pc = "returned" => Cardinality(FinalAnswers) = 1
    /\ pc = "raised" => (error = "RuntimeError" /\ iters = cfg.max_iters)
    /\ pc # "returned" => FinalAnswers = {}

-----------------------------------------------------------------------------
(* C2 *)

\* the iteration of this step received a text that proposes a call whose canonical id
\* is in executed_tool_calls or equals last_tool_id
DuplicateProposed ==
    /\ IterationStep
    /\ ProposesCall(Last(hist').text)
    /\ LET tok == ProposedToken(Last(hist').text)
           id == [name |-> ToolName(tok), args |-> SortKeys(ToolArgs(tok))]
       IN  id \in state.executed_tool_calls \/ id = state.last_tool_id

NeverHandedTwice ==
    \A i, j \in 1..Len(provider_calls) : provider_calls[i] = provider_calls[j] => i = j

\* C2 as stated: whenever the model proposes a tool call whose canonical id is already in
\* executed_tool_calls or equals last_tool_id, the call is not executed, the mode becomes
\* FINALIZING and a note is appended; no canonical id is handed to the provider twice.
C2_DuplicateForcesFinalizing ==
    [][/\ DuplicateProposed =>
            /\ provider_calls' = provider_calls
            /\ state'.mode = "FINALIZING"
            /\ AppendedBy("note")
       /\ NeverHandedTwice']_vars

\* the proposal of this step is answered with the justification nudge
JustificationNudged == IterationStep /\ Last(hist').branch = "justify"

\* C2 amended: a proposed duplicate is never executed and a note is appended; the mode
\* becomes FINALIZING unless the proposal is answered with the justification nudge (fewer
\* than 12 characters before the call while fewer than 3 such nudges were given), which
\* leaves the mode as it was; no canonical id is handed to the provider twice in a run.
C2_DuplicateNeverExecuted ==
    [][/\ DuplicateProposed =>
            /\ provider_calls' = provider_calls
            /\ AppendedBy("note")
            /\ IF JustificationNudged
               THEN state'.mode = state.mode /\ Last(chain').content = <<"NOTE_JUSTIFY">>
               ELSE state'.mode = "FINALIZING"
       /\ NeverHandedTwice']_vars

\* a duplicate written with its keys in the other order was blocked in INTERACTIVE mode
C2_Witness ==
    /\ Len(hist) >= 2
    /\ hist[1].text = <<"w12", "ws", "callA">>
    /\ hist[1].branch \in {"tool_ok", "soft_fail"}
    /\ hist[2].text = <<"w12", "ws", "callA2">>
    /\ hist[2].mode = "INTERACTIVE"
    /\ hist[2].branch = "duplicate"
    /\ state.mode = "FINALIZING"
    /\ Len(provider_calls) = 1

-----------------------------------------------------------------------------
(* C3 *)

\* iterations i and i+1 propose the identical call
IdenticalProposals(i) ==
    /\ ProposesCall(hist[i].text)
    /\ ProposesCall(hist[i + 1].text)
    /\ SameCall(ProposedToken(hist[i].text), ProposedToken(hist[i + 1].text))

\* what C3 says of the pair (i, i+1) and of the iteration after it
SecondRejected(i) ==
    /\ hist[i + 1].branch \notin ExecutedBranches
    /\ ModeAfter(i + 1) = "FINALIZING"
    /\ (/\ i + 2 <= Len(hist)
        /\ ~HasSentinel(hist[i + 2].text)
        /\ \E k \in 1..Len(hist[i + 2].text) :
              hist[i + 2].text[k] \in CallTokens \cup BadCallTokens \cup ShapeTokens)
       => hist[i + 2].branch \in {"finalize_nudge", "forced_exit"}

\* C3 as stated: for every two consecutive iterations that propose the identical tool
\* call, the second proposal is not executed, the mode is FINALIZING at the end of the
\* second iteration and a tool-shaped output of the third iteration is nudged.
C3_SecondProposalRejected ==
    \A i \in 1..(Len(hist) - 1) : IdenticalProposals(i) => SecondRejected(i)

\* C3 amended: the same, for every two consecutive iterations that propose the identical
\* tool call and of which neither is answered with the justification nudge.
C3_SecondJustifiedProposalRejected ==
    \A i \in 1..(Len(hist) - 1) :
        (/\ IdenticalProposals(i)
         /\ hist[i].branch # "justify"
         /\ hist[i + 1].branch # "justify")
        => SecondRejected(i)

\* the scenario: executed, rejected as a duplicate, then a tool-shaped text nudged
C3_Witness ==
    /\ Len(hist) = 3
    /\ IdenticalProposals(1)
    /\ hist[1].branch = "tool_ok"
    /\ hist[2].branch = "duplicate"
    /\ ProposesCall(hist[3].text)
    /\ hist[3].branch = "finalize_nudge"

-----------------------------------------------------------------------------
(* C4 *)

\* C4: the mode starts as INTERACTIVE; once it is FINALIZING it stays FINALIZING and no
\* tool call is handed to the tool provider for the rest of the run.
C4_FinalizingIsAbsorbing ==
    /\ state.mode = "INTERACTIVE"
    /\ [][state.mode = "FINALIZING" =>
             (state'.mode = "FINALIZING" /\ provider_calls' = provider_calls)]_vars

\* a call never handed before is proposed in FINALIZING mode and is not executed
C4_Witness ==
    /\ Len(hist) = 3
    /\ hist[1].branch = "tool_ok"
    /\ hist[3].mode = "FINALIZING"
    /\ hist[3].text = <<"w12", "ws", "callB">>
    /\ state.mode = "FINALIZING"
    /\ Len(provider_calls) = 1

-----------------------------------------------------------------------------
(* C5 *)

\* the iterations in which a tool execution produced an outcome
SuccessfulExecutions == {i \in 1..Len(hist) : hist[i].branch = "tool_ok"}

\* C5: for max_tool_steps = N >= 1, from the N-th successful tool execution of a run on
\* the mode is FINALIZING, whatever the model emitted before or emits after.
C5_CapForcesFinalizing ==
    (cfg.max_tool_steps >= 1 /\ Cardinality(SuccessfulExecutions) >= cfg.max_tool_steps)
    => state.mode = "FINALIZING"

\* the second of two allowed tool steps has just succeeded, without auto-finalize
C5_Witness ==
    /\ cfg.max_tool_steps = 2
    /\ ~cfg.auto_finalize_after_tool
    /\ Cardinality(SuccessfulExecutions) = 2
    /\ Last(hist).branch = "tool_ok"
    /\ state.mode = "FINALIZING"

-----------------------------------------------------------------------------
(* C6 *)

\* C6: in either mode, an iteration whose model output contains the sentinel ends the
\* run successfully in that iteration: a final answer is appended, a trace is persisted
\* and no tool call is executed, even if the output also holds a well-formed tool call.
C6_SentinelEndsRun ==
    [][(IterationStep /\ HasSentinel(Last(hist').text)) =>
          /\ pc' = "returned"
          /\ error' = "none"
          /\ provider_calls' = provider_calls
          /\ Len(Appended) = 1
          /\ Appended[1].by = "final"
          /\ Len(trace_calls') = Len(trace_calls) + 1
          /\ Last(trace_calls').final_answer = Appended[1].content]_vars

\* a text with a well-formed call and the sentinel ended the run in INTERACTIVE mode
C6_Witness ==
    /\ pc = "returned"
    /\ Last(hist).text = <<"w12", "ws", "callA", "ws", "END">>
    /\ Last(hist).mode = "INTERACTIVE"
    /\ provider_calls = <<>>
    /\ Len(trace_calls) = 1

-----------------------------------------------------------------------------
(* C7 *)

\* the text before the first sentinel
BeforeSentinel(text) ==
    SubSeq(text, 1, (CHOOSE i \in 1..Len(text) :
                        /\ text[i] = "END"
                        /\ \A j \in 1..(i - 1) : text[j] # "END") - 1)

IsBlank(text) == \A i \in 1..Len(text) : text[i] = "ws"

\* the run ended on a sentinel of the model
EndedOnSentinel == pc = "returned" /\ Last(hist).branch = "final"

\* C7 as stated: the final answer is the text before the first sentinel, trimmed of
\* surrounding whitespace, and holds neither the sentinel nor text after it.
C7_FinalAnswerTrimmedBothSides ==
    EndedOnSentinel =>
        LET before == BeforeSentinel(Last(hist).text)
            answer == Last(chain).content
        IN  /\ ~HasSentinel(answer)
            /\ \E i \in 1..(Len(before) + 1), j \in 0..Len(before) :
                  /\ answer = SubSeq(before, i, j)
                  /\ IsBlank(SubSeq(before, 1, i - 1))
                  /\ IsBlank(SubSeq(before, j + 1, Len(before)))
            /\ answer # <<>> => (answer[1] # "ws" /\ Last(answer) # "ws")

\* C7 amended: the final answer is the text before the first sentinel with its trailing
\* whitespace removed (leading whitespace is kept), and holds neither the sentinel nor
\* text after it.
C7_FinalAnswerTrimmedRight ==
    EndedOnSentinel =>
        LET before == BeforeSentinel(Last(hist).text)
            answer == Last(chain).content
        IN  /\ ~HasSentinel(answer)
            /\ \E j \in 0..Len(before) :
                  /\ answer = SubSeq(before, 1, j)
                  /\ IsBlank(SubSeq(before, j + 1, Len(before)))
            /\ answer # <<>> => Last(answer) # "ws"

\* a final answer taken from a text with blanks on both sides and text after the sentinel
C7_Witness ==
    /\ EndedOnSentinel
    /\ Last(hist).text = <<"ws", "w9", "ws", "END", "ws", "x">>
    /\ Last(chain).content = <<"ws", "w9">>

-----------------------------------------------------------------------------
(* C8 *)

ToolShaped(text) ==
    \E i \in 1..Len(text) : text[i] \in CallTokens \cup BadCallTokens \cup ShapeTokens

\* C8: in FINALIZING mode a tool-shaped output without sentinel raises finalize_nudges
\* by exactly one and appends the nudge note; as soon as finalize_nudges exceeds
\* max_finalize_nudges the run returns in that iteration with a synthesized final answer
\* and a persisted trace, and it does not raise; until then the loop goes on.
C8_NudgeThenForcedExit ==
    [][(/\ IterationStep
        /\ Last(hist').mode = "FINALIZING"
        /\ ~HasSentinel(Last(hist').text)
        /\ ToolShaped(Last(hist').text)) =>
          /\ state'.finalize_nudges = state.finalize_nudges + 1
          /\ Appended[1] = ModelResponse(<<"NOTE_NO_TOOLS_IN_FINALIZE">>, "note")
          /\ error' = "none"
          /\ IF state'.finalize_nudges > cfg.max_finalize_nudges
             THEN /\ pc' = "returned"
                  /\ Len(Appended) = 2
                  /\ Appended[2].by = "final"
                  /\ Appended[2].content[1] = "SUMMARY"
                  /\ Len(trace_calls') = Len(trace_calls) + 1
             ELSE /\ pc' = "loop"
                  /\ Len(Appended) = 1
                  /\ trace_calls' = trace_calls]_vars

\* the second nudge exceeded a budget of one and forced the summarized exit
C8_Witness ==
    /\ pc = "returned"
    /\ cfg.max_finalize_nudges = 1
    /\ state.finalize_nudges = 2
    /\ Last(hist).branch = "forced_exit"
    /\ Last(chain).by = "final"

-----------------------------------------------------------------------------
(* C9 *)

\* C9: when max_iters iterations completed without sentinel and without forced exit,
\* the run writes the dump of the session's message contents and raises the max_iters
\* error; it does not return, and the error is never raised without the dump written.
C9_DumpThenRaise ==
    /\ [](error = "RuntimeError" => (pc = "raised" /\ dump_file # NoDump))
    /\ [][(pc = "loop" /\ iters >= cfg.max_iters) =>
             /\ pc' = "raised"
             /\ error' = "RuntimeError"
             /\ Len(dump_file') = Len(sandbox.messages)
             /\ \A i \in 1..Len(sandbox.messages) :
                   dump_file'[i] = sandbox.messages[i].content]_vars

\* three iterations without sentinel, then the dump and the error
C9_Witness ==
    /\ pc = "raised"
    /\ error = "RuntimeError"
    /\ cfg.max_iters = 3
    /\ Len(hist) = 3
    /\ Len(dump_file) = Len(sandbox.messages)
    /\ dump_file[1] = query

-----------------------------------------------------------------------------
(* C10 *)

\* C10: no failure of tool execution leaves run_cot: after an iteration that handed a
\* call to the provider the run is either going on or, later, ended by the max_iters
\* error; it is never ended by another exception.
C10_ToolFailuresContained ==
    (hist # <<>> /\ Last(hist).branch \in ExecutedBranches)
    => (pc = "raised" => error = "RuntimeError")

-----------------------------------------------------------------------------
(* C11 *)

\* the text holds a tool call whose arguments object is malformed
HasMalformedCall(text) == \E i \in 1..Len(text) : text[i] \in BadCallTokens

\* C11: tool-call detection never fails the run: an INTERACTIVE iteration whose model
\* output holds no sentinel and a tool call with a malformed arguments object does not
\* end the run; the run goes on and the iteration appended a corrective note.
C11_DetectionNeverFails ==
    [][(/\ IterationStep
        /\ state.mode = "INTERACTIVE"
        /\ ~HasSentinel(Last(hist').text)
        /\ HasMalformedCall(Last(hist').text))
       => (pc' = "loop" /\ error' = "none" /\ AppendedBy("note"))]_vars

-----------------------------------------------------------------------------
(* The canonical tool id as a function of its arguments *)

\* CoTConfig(): the defaults of the dataclass
DefaultConfig ==
    [max_iters |-> 5, max_tool_steps |-> 5, max_finalize_nudges |-> 2,
     auto_finalize_after_tool |-> FALSE]

\* no controller constructed yet: the run variables before the first request
Quiescent ==
    /\ query = <<>>
    /\ pc = "idle"
    /\ error = "none"
    /\ state = CoTState
    /\ iters = 0
    /\ chain = <<>>
    /\ sandbox = SandboxState
    /\ provider_calls = <<>>
    /\ list_tools_calls = 0
    /\ trace_calls = <<>>
    /\ dump_file = NoDump
    /\ hist = <<>>

runvars == <<cfg, query, pc, error, state, iters, chain, sandbox, provider_calls,
             list_tools_calls, trace_calls, dump_file, hist>>

ToolNames == {"list_nodes", "get_node"}
ArgKeys == {"a", "b"}
ArgValues == {1, 2}

\* the arguments objects json.loads can return: pairs with distinct keys, as written
ArgMappings ==
    {<<>>}
    \cup {<< <<k, v>> >> : k \in ArgKeys, v \in ArgValues}
    \cup {m \in {<< <<k1, v1>>, <<k2, v2>> >> :
                    k1 \in ArgKeys, k2 \in ArgKeys, v1 \in ArgValues, v2 \in ArgValues} :
             m[1][1] # m[2][1]}

CanonInit ==
    /\ Quiescent
    /\ cfg = DefaultConfig
    /\ turn_log = <<>>
    /\ reasoning_graph = ReasoningGraph
    /\ disk = NoFiles
    /\ save_pc = Idle
    /\ parked = NoInvocation
    /\ probe \in [fn : {"canonical_id"}, name : ToolNames,
                  first : ArgMappings, second : ArgMappings, ids : {<<>>}]

\* _canonical_tool_id applied to the first mapping, to the second, to the first again
CanonicalId ==
    /\ probe.fn = "canonical_id"
    /\ Len(probe.ids) < 3
    /\ LET arguments == IF Len(probe.ids) = 1 THEN probe.second ELSE probe.first
       IN  probe' = [probe EXCEPT !.ids = Append(@, _canonical_tool_id(probe.name, arguments))]
    /\ UNCHANGED <<runvars, turn_log, parked, reasoning_graph, disk, save_pc>>

CanonNext == CanonicalId

CanonSpec == CanonInit /\ [][CanonNext]_vars

-----------------------------------------------------------------------------
(* C12 *)

\* the two mappings hold the same key/value pairs
SamePairs(args1, args2) ==
    {args1[i] : i \in 1..Len(args1)} = {args2[i] : i \in 1..Len(args2)}

\* C12: for every tool name and every two argument mappings that hold the same
\* key/value pairs, in whatever key order, the canonical id is the same, and the id of
\* one name and mapping is the same every time it is computed.
C12_CanonicalIdOrderIndependent ==
    (probe.fn = "canonical_id" /\ Len(probe.ids) = 3)
    => /\ probe.ids[3] = probe.ids[1]
       /\ SamePairs(probe.first, probe.second) => probe.ids[2] = probe.ids[1]

\* two keys written in the two orders, and one id
C12_Witness ==
    /\ probe.fn = "canonical_id"
    /\ Len(probe.ids) = 3
    /\ Len(probe.first) = 2
    /\ probe.first # probe.second
    /\ SamePairs(probe.first, probe.second)
    /\ probe.ids[1] = probe.ids[2]

-----------------------------------------------------------------------------
(* Topic detection of the sandbox (sandbox.py) *)

\* sandbox.py:27 "threshold: float = 0.65", in hundredths
TopicThreshold == 65

\* the matching blocks of a[alo..ahi] and b[blo..bhi] as <<i, j, k>>: k equal elements
\* from a[i] and from b[j]
Blocks(a, alo, ahi, b, blo, bhi) ==
    {m \in (alo..ahi) \X (blo..bhi) \X (1..Len(a)) :
        /\ m[1] + m[3] - 1 <= ahi
        /\ m[2] + m[3] - 1 <= bhi
        /\ SubSeq(a, m[1], m[1] + m[3] - 1) = SubSeq(b, m[2], m[2] + m[3] - 1)}

\* SequenceMatcher.find_longest_match: the longest block, of those the one that starts
\* earliest in a, of those the one that starts earliest in b
find_longest_match(a, alo, ahi, b, blo, bhi) ==
    LET bs == Blocks(a, alo, ahi, b, blo, bhi)
    IN  CHOOSE m \in bs : \A n \in bs :
            \/ m[3] > n[3]
            \/ m[3] = n[3] /\ m[1] < n[1]
            \/ m[3] = n[3] /\ m[1] = n[1] /\ m[2] <= n[2]

\* SequenceMatcher.get_matching_blocks: the number of matched elements, the longest
\* block first and then the pieces to its left and to its right
RECURSIVE Matches(_, _, _, _, _, _)
Matches(a, alo, ahi, b, blo, bhi) ==
    IF Blocks(a, alo, ahi, b, blo, bhi) = {} THEN 0
    ELSE LET m == find_longest_match(a, alo, ahi, b, blo, bhi)
         IN  m[3] + Matches(a, alo, m[1] - 1, b, blo, m[2] - 1)
                  + Matches(a, m[1] + m[3], ahi, b, m[2] + m[3], bhi)

\* SequenceMatcher(None, a, b).ratio() >= threshold, the threshold in hundredths:
\* ratio is 2.0 * matches / (len(a) + len(b)), and 1.0 for two empty strings
RatioAtLeast(a, b, threshold) ==
    IF Len(a) + Len(b) = 0 THEN 100 >= threshold
    ELSE 200 * Matches(a, 1, Len(a), b, 1, Len(b)) >= threshold * (Len(a) + Len(b))

\* "if not self.topic_anchor": None and the empty string both count as no anchor
is_same_topic(sb, new_query, threshold) ==
    IF ~sb.topic_anchor.some \/ sb.topic_anchor.text = <<>> THEN FALSE
    ELSE RatioAtLeast(sb.topic_anchor.text, new_query, threshold)

\* the queries of a session, character by character
SessionQueries == {<<>>, <<"a", "b", "c">>, <<"a", "b", "d">>, <<"x", "y">>}

\* thresholds in hundredths
Thresholds == {0, 65, 100}

TopicInit ==
    /\ Quiescent
    /\ cfg = DefaultConfig
    /\ turn_log = <<>>
    /\ reasoning_graph = ReasoningGraph
    /\ disk = NoFiles
    /\ save_pc = Idle
    /\ parked = NoInvocation
    /\ probe = NoProbe

\* sandbox.reset(query)
TopicReset(q) ==
    /\ q \in SessionQueries
    /\ sandbox' = reset(sandbox, q)
    /\ UNCHANGED <<cfg, query, pc, error, state, iters, chain, provider_calls,
                   list_tools_calls, trace_calls, dump_file, hist, others>>

\* sandbox.is_same_topic(new_query, threshold)
IsSameTopic(new_query, threshold) ==
    /\ new_query \in SessionQueries
    /\ threshold \in Thresholds
    /\ probe' = [fn |-> "is_same_topic", anchor |-> sandbox.topic_anchor,
                 new_query |-> new_query, threshold |-> threshold,
                 result |-> is_same_topic(sandbox, new_query, threshold)]
    /\ UNCHANGED <<runvars, turn_log, parked, reasoning_graph, disk, save_pc>>

TopicNext ==
    \/ \E q \in SessionQueries : TopicReset(q)
    \/ \E q \in SessionQueries, threshold \in Thresholds : IsSameTopic(q, threshold)

TopicSpec == TopicInit /\ [][TopicNext]_vars

-----------------------------------------------------------------------------
(* C14 *)

\* C14: is_same_topic returns false whenever no topic anchor has been set, and returns
\* true for every query identical to the current anchor at every threshold <= 1.0, for
\* every query that reset(query) can install as the anchor, the empty string included.
C14_SameTopicForIdenticalQuery ==
    probe.fn = "is_same_topic"
    => /\ ~probe.anchor.some => probe.result = FALSE
       /\ (probe.anchor.some /\ probe.anchor.text = probe.new_query /\ probe.threshold <= 100)
          => probe.result = TRUE

-----------------------------------------------------------------------------
(* A session: controllers constructed and run one after another on one sandbox *)

\* the number of requests of a session
MaxTurns == 3

\* the configuration of the controllers of the session
SessionConfig ==
    [max_iters |-> 2, max_tool_steps |-> 2, max_finalize_nudges |-> 1,
     auto_finalize_after_tool |-> FALSE]

\* the model outputs of the session: a justified call and an answer with the sentinel
SessionTexts == {<<"w12", "ws", "callA">>, <<"ws", "w9", "ws", COT_END_PROMPT, "ws", "x">>}

SessionBehaviours == {"ok_table", "call_raises"}

\* variant: only the last message of the sandbox is compared with the query
AlreadySeeded_last_only(sb, q) ==
    /\ sb.messages # <<>>
    /\ sb.messages[Len(sb.messages)].type = "ModelRequest"
    /\ sb.messages[Len(sb.messages)].content = q

\* cot.py:119: any(isinstance(m, ModelRequest) and m.parts and m.parts[0].content == query)
AlreadySeeded(sb, q) ==
    \E i \in 1..Len(sb.messages) :
        sb.messages[i].type = "ModelRequest" /\ sb.messages[i].content = q

SessionInit ==
    /\ Quiescent
    /\ cfg = SessionConfig
    /\ turn_log = <<>>
    /\ reasoning_graph = ReasoningGraph
    /\ disk = NoFiles
    /\ save_pc = Idle
    /\ parked = NoInvocation
    /\ probe = NoProbe

\* no controller of the session is between its construction and the end of its run
NoRunInProgress == pc \in {"idle", "returned", "raised", "done", "stream_failed"}

\* ChainOfThought(query=q, sandbox=sandbox, ...) for the next request of the session:
\* the plan lookup with its cleaning, a new chain and CoTState, the topic check with
\* the reset, the seeding of the user request.  A plan lookup that walks a cycle never
\* returns, and the constructor with it.
Construct(q, scores) ==
    /\ NoRunInProgress
    /\ Len(turn_log) < MaxTurns
    /\ q \in SessionQueries
    /\ scores \in ScoresFor(reasoning_graph, q)
    /\ LET raw_plan == get_plan(reasoning_graph, scores)
           drift == ~is_same_topic(sandbox, q, TopicThreshold)
           sb == IF drift THEN reset(sandbox, q) ELSE sandbox
           seed == ~AlreadySeeded(sb, q)
           st == IF seed
                 THEN _append([chain |-> <<>>, sandbox |-> sb], UserRequest(q), None)
                 ELSE [chain |-> <<>>, sandbox |-> sb]
       IN  IF ~raw_plan.returned
           THEN /\ pc' = "hung"
                /\ UNCHANGED <<chain, sandbox, turn_log, query, state, iters, error,
                               provider_calls, list_tools_calls, trace_calls, hist>>
           ELSE /\ chain' = st.chain
                /\ sandbox' = st.sandbox
                /\ turn_log' = Append(turn_log, [query |-> q, reset |-> drift,
                                                 seeded |-> seed,
                                                 plan |-> CleanPlan(raw_plan)])
                /\ query' = q
                /\ state' = CoTState
                /\ iters' = 0
                /\ pc' = "start"
                /\ error' = "none"
                /\ provider_calls' = <<>>
                /\ list_tools_calls' = 0
                /\ trace_calls' = <<>>
                /\ hist' = <<>>
    /\ UNCHANGED <<cfg, dump_file, reasoning_graph, probe, disk, save_pc, parked>>

\* the similarities of the session: an exemplar of another text scores 0
SessionScores(g, q) ==
    {sc \in ScoresFor(g, q) : \A i \in 1..Len(g.query_index) : sc[i] \in {0, 100}}

SessionNext ==
    \/ /\ NoRunInProgress
       /\ \E q \in SessionQueries : \E scores \in SessionScores(reasoning_graph, q) :
             Construct(q, scores)
    \/ BuildSystemPrompt
    \/ \E text \in SessionTexts :
          \/ IterFinalAnswer(text)
          \/ IterDuplicate(text)
          \/ \E behaviour \in SessionBehaviours : IterExecuteTool(text, behaviour)
    \/ MaxItersExceeded

SessionSpec == SessionInit /\ [][SessionNext]_vars

-----------------------------------------------------------------------------
(* C13 *)

UserMessages == {i \in 1..Len(sandbox.messages) : sandbox.messages[i].type = "ModelRequest"}

\* turns i < j belong to one topic: no reset after turn i up to turn j
SameTopicTurns(i, j) == \A k \in (i + 1)..j : ~turn_log[k].reset

\* C13: after any sequence of controller constructions and runs on one session, the
\* message log holds no two user messages with the same raw query text, and within one
\* topic a query is seeded at most once, hence never twice in a row.
C13_QuerySeededOncePerTopic ==
    /\ \A i \in UserMessages : \A j \in UserMessages :
          i # j => sandbox.messages[i].content # sandbox.messages[j].content
    /\ \A i \in 1..Len(turn_log) : \A j \in (i + 1)..Len(turn_log) :
          (turn_log[i].query = turn_log[j].query /\ SameTopicTurns(i, j))
          => ~(turn_log[i].seeded /\ turn_log[j].seeded)

\* a query, a similar query of the same topic, and the first query again after both
\* runs returned: the third construction seeds nothing
C13_Witness ==
    /\ Len(turn_log) = 3
    /\ turn_log[1].query = turn_log[3].query
    /\ turn_log[2].query # turn_log[1].query
    /\ turn_log[1].seeded /\ turn_log[2].seeded /\ ~turn_log[3].seeded
    /\ ~turn_log[2].reset /\ ~turn_log[3].reset
    /\ Cardinality(UserMessages) = 2
    /\ pc = "returned"

-----------------------------------------------------------------------------
(* Serialisation of the sandbox: to_dict and from_dict (sandbox.py) *)

\* the longest message list of a sandbox that is serialised
MaxMessages == 2

\* JSON null, or the JSON string of a text
JsonNull == [null |-> TRUE, str |-> <<>>]
JsonStr(text) == [null |-> FALSE, str |-> text]

\* ModelMessagesTypeAdapter.dump_json of one message, read back by json.loads: an
\* object tagged by kind, its one part tagged by part_kind, the model name of a response
dump_message(m) ==
    IF m.type = "ModelRequest"
    THEN [kind |-> "request",
          parts |-> <<[part_kind |-> "user-prompt", content |-> m.content]>>,
          model_name |-> JsonNull]
    ELSE [kind |-> "response",
          parts |-> <<[part_kind |-> "text", content |-> m.content]>>,
          model_name |-> JsonStr(<<"ChainOfThought", m.model_name, m.tool>>)]

\* the adapter rejects an object of another kind or with a part that does not fit it
validates(raw) ==
    /\ raw.kind \in {"request", "response"}
    /\ Len(raw.parts) = 1
    /\ raw.kind = "request" => raw.parts[1].part_kind = "user-prompt"
    /\ raw.kind = "response" => raw.parts[1].part_kind = "text" /\ ~raw.model_name.null

\* ModelMessagesTypeAdapter.validate_json of one object
validate_message(raw) ==
    IF raw.kind = "request"
    THEN [type |-> "ModelRequest", model_name |-> "", tool |-> None,
          content |-> raw.parts[1].content, by |-> "loaded"]
    ELSE [type |-> "ModelResponse", model_name |-> raw.model_name.str[2],
          tool |-> raw.model_name.str[3],
          content |-> raw.parts[1].content, by |-> "loaded"]

to_dict(sb) ==
    [topic_anchor |-> IF sb.topic_anchor.some THEN JsonStr(sb.topic_anchor.text) ELSE JsonNull,
     latest_view |-> IF sb.latest_view = None THEN JsonNull ELSE JsonStr(<<sb.latest_view>>),
     messages |-> [i \in 1..Len(sb.messages) |-> dump_message(sb.messages[i])]]

\* variant: only the messages are restored
from_dict_messages_only(data) ==
    [SandboxState EXCEPT
        !.messages = IF \A i \in 1..Len(data.messages) : validates(data.messages[i])
                     THEN [i \in 1..Len(data.messages) |-> validate_message(data.messages[i])]
                     ELSE <<>>]

\* a failure to validate any message leaves the message list empty
from_dict(data) ==
    [topic_anchor |-> IF data.topic_anchor.null THEN NoAnchor
                      ELSE [some |-> TRUE, text |-> data.topic_anchor.str],
     latest_view |-> IF data.latest_view.null THEN None ELSE data.latest_view.str[1],
     messages |-> IF \A i \in 1..Len(data.messages) : validates(data.messages[i])
                  THEN [i \in 1..Len(data.messages) |-> validate_message(data.messages[i])]
                  ELSE <<>>]

\* the messages a controller appends to a sandbox
SandboxMessages ==
    {UserRequest(<<"a", "b", "c">>), UserRequest(<<>>),
     ModelResponse(<<"w12">>, "text"), ModelResponse(<<"NOTE_NEED_TOOL_OR_FINAL">>, "note"),
     ToolResponse(<<"RESULT">>, "list_nodes"), ToolResponse(<<"RESULT">>, "get_node")}

RECURSIVE SeqsUpTo(_, _)
SeqsUpTo(S, n) ==
    IF n = 0 THEN {<<>>}
    ELSE SeqsUpTo(S, n - 1) \cup {Append(sq, x) : sq \in SeqsUpTo(S, n - 1), x \in S}

SandboxStates ==
    [topic_anchor : {NoAnchor} \cup {[some |-> TRUE, text |-> q] : q \in SessionQueries},
     messages : SeqsUpTo(SandboxMessages, MaxMessages),
     latest_view : {None, "table", "graph"}]

RoundTripInit ==
    /\ query = <<>>
    /\ pc = "idle"
    /\ error = "none"
    /\ state = CoTState
    /\ iters = 0
    /\ chain = <<>>
    /\ sandbox \in SandboxStates
    /\ provider_calls = <<>>
    /\ list_tools_calls = 0
    /\ trace_calls = <<>>
    /\ dump_file = NoDump
    /\ hist = <<>>
    /\ cfg = DefaultConfig
    /\ turn_log = <<>>
    /\ reasoning_graph = ReasoningGraph
    /\ disk = NoFiles
    /\ save_pc = Idle
    /\ parked = NoInvocation
    /\ probe = NoProbe

\* sandbox.to_dict()
ToDict ==
    /\ probe.fn = "none"
    /\ probe' = [fn |-> "to_dict", data |-> to_dict(sandbox)]
    /\ UNCHANGED <<runvars, turn_log, parked, reasoning_graph, disk, save_pc>>

\* SandboxState.from_dict(data) on the dictionary that to_dict returned
FromDict ==
    /\ probe.fn = "to_dict"
    /\ probe' = [fn |-> "from_dict", inst |-> from_dict(probe.data)]
    /\ UNCHANGED <<runvars, turn_log, parked, reasoning_graph, disk, save_pc>>

RoundTripNext == ToDict \/ FromDict

RoundTripSpec == RoundTripInit /\ [][RoundTripNext]_vars

-----------------------------------------------------------------------------
(* C15 *)

\* what a message is, apart from the record of who appended it
Payload(m) ==
    [type |-> m.type, model_name |-> m.model_name, tool |-> m.tool, content |-> m.content]

-----------------------------------------------------------------------------
(* Persistence: save_sandbox_state (sandbox.py) and ReasoningGraph.save (reasoning.py) *)

\* the number of write calls that put one snapshot into the temporary file
SnapshotChunks == 2
\* the snapshots of one session are numbered 1..MaxVersions
MaxVersions == 2

Kinds == {"sandbox", "reasoning"}

\* sandbox.py:156 and reasoning.py:285: <dir>/<session_id>.json and <dir>/<session_id>.pkl
final_path(kind) ==
    IF kind = "sandbox" THEN "sandbox_state/s.json" ELSE "reasoning_state/s.pkl"

\* variant: the snapshot is written to the target file itself
tmp_path_in_place(kind) == final_path(kind)

\* sandbox.py:155 and reasoning.py:195: <session_id>.tmp and <session_id>.pkl.tmp
tmp_path(kind) ==
    IF kind = "sandbox" THEN "sandbox_state/s.tmp" ELSE "reasoning_state/s.pkl.tmp"

\* the bytes of the snapshot numbered v, in the order they are written
Snapshot(kind, v) == [c \in 1..SnapshotChunks |-> <<kind, v, c>>]

Exists(path) == path \in DOMAIN disk

WriteFile(d, path, content) ==
    [p \in DOMAIN d \cup {path} |-> IF p = path THEN content ELSE d[p]]

RemoveFile(d, path) == [p \in DOMAIN d \ {path} |-> d[p]]

\* Path.replace: the temporary file takes the place of the target in one step
ReplaceFile(d, src, dst) ==
    IF src = dst THEN d ELSE WriteFile(RemoveFile(d, src), dst, d[src])

\* the version a file holds, 0 for no file or an empty one
VersionOf(path) == IF Exists(path) /\ disk[path] # <<>> THEN disk[path][1][2] ELSE 0

SaveInit ==
    /\ Quiescent
    /\ cfg = DefaultConfig
    /\ turn_log = <<>>
    /\ reasoning_graph = ReasoningGraph
    /\ disk = NoFiles
    /\ save_pc = Idle
    /\ parked = NoInvocation
    /\ probe = NoProbe

\* a save of the in-memory state, which differs from the snapshot on disk, begins:
\* the directory is made and the two paths are computed
BeginSave(kind, v) ==
    /\ save_pc.at = "idle"
    /\ kind \in Kinds
    /\ v \in 1..MaxVersions
    /\ v # VersionOf(final_path(kind))
    /\ save_pc' = [at |-> "open", kind |-> kind, v |-> v]
    /\ UNCHANGED <<runvars, turn_log, parked, reasoning_graph, probe, disk>>

\* open(tmp, "w") / open(tmp_path, "wb"): the file is created or emptied
OpenTmp ==
    /\ save_pc.at = "open"
    /\ disk' = WriteFile(disk, tmp_path(save_pc.kind), <<>>)
    /\ save_pc' = [save_pc EXCEPT !.at = "write"]
    /\ UNCHANGED <<runvars, turn_log, parked, reasoning_graph, probe>>

\* json.dump / pickle.dump: the next piece of the snapshot reaches the file; after the
\* last one the with block closes the file
WriteChunk ==
    /\ save_pc.at = "write"
    /\ LET tmp == tmp_path(save_pc.kind)
           n == Len(disk[tmp]) + 1
       IN  /\ n <= SnapshotChunks
           /\ disk' = WriteFile(disk, tmp, Append(disk[tmp], Snapshot(save_pc.kind, save_pc.v)[n]))
           /\ save_pc' = [save_pc EXCEPT !.at = IF n = SnapshotChunks THEN "replace" ELSE "write"]
    /\ UNCHANGED <<runvars, turn_log, parked, reasoning_graph, probe>>

\* the dump raises: save_sandbox_state logs and returns, leaving the temporary file;
\* ReasoningGraph.save unlinks the temporary file and save_reasoning_graph logs
DumpRaises ==
    /\ save_pc.at = "write"
    /\ disk' = IF save_pc.kind = "reasoning" /\ Exists(tmp_path(save_pc.kind))
               THEN RemoveFile(disk, tmp_path(save_pc.kind))
               ELSE disk
    /\ save_pc' = Idle
    /\ UNCHANGED <<runvars, turn_log, parked, reasoning_graph, probe>>

\* tmp.replace(final); the finally clause of ReasoningGraph.save finds no file to unlink
Replace ==
    /\ save_pc.at = "replace"
    /\ disk' = ReplaceFile(disk, tmp_path(save_pc.kind), final_path(save_pc.kind))
    /\ save_pc' = Idle
    /\ UNCHANGED <<runvars, turn_log, parked, reasoning_graph, probe>>

\* the process dies at any step of a save; the files stay as they are
Crash ==
    /\ save_pc.at \in {"open", "write", "replace"}
    /\ save_pc' = [at |-> "crashed"]
    /\ UNCHANGED <<runvars, turn_log, parked, reasoning_graph, probe, disk>>

\* a new process: load_sandbox_state / load_reasoning_graph read the target file
Load(kind) ==
    /\ save_pc.at \in {"idle", "crashed"}
    /\ kind \in Kinds
    /\ probe' = [fn |-> "load", kind |-> kind,
                 found |-> Exists(final_path(kind)),
                 read |-> IF Exists(final_path(kind)) THEN disk[final_path(kind)] ELSE <<>>]
    /\ save_pc' = Idle
    /\ UNCHANGED <<runvars, turn_log, parked, reasoning_graph, disk>>

SaveNext ==
    \/ \E kind \in Kinds, v \in 1..MaxVersions : BeginSave(kind, v)
    \/ OpenTmp
    \/ WriteChunk
    \/ DumpRaises
    \/ Replace
    \/ Crash
    \/ \E kind \in Kinds : Load(kind)

SaveSpec == SaveInit /\ [][SaveNext]_vars

-----------------------------------------------------------------------------
(* C16 *)

\* the content is one whole snapshot of the kind
IsComplete(kind, content) == \E v \in 1..MaxVersions : content = Snapshot(kind, v)

\* C16: for the sandbox file and for the reasoning-trace file, every step of a save, a
\* crash included, leaves the target file as it was or holding the complete new
\* snapshot; the target file never holds part of a snapshot, and a load never reads one.
C16_TargetNeverPartial ==
    /\ [](\A kind \in Kinds :
            /\ Exists(final_path(kind)) => IsComplete(kind, disk[final_path(kind)])
            /\ (probe.fn = "load" /\ probe.kind = kind /\ probe.found)
               => IsComplete(kind, probe.read))
    /\ [][\A kind \in Kinds :
            LET final == final_path(kind) IN
            \/ final \notin DOMAIN disk' /\ final \notin DOMAIN disk
            \/ final \in DOMAIN disk' /\ final \in DOMAIN disk /\ disk'[final] = disk[final]
            \/ /\ final \in DOMAIN disk'
               /\ save_pc.at = "replace" /\ save_pc.kind = kind
               /\ disk'[final] = Snapshot(kind, save_pc.v)]_vars

\* a save of snapshot 2 crashed after its first write: the temporary file holds part of
\* snapshot 2, and the new process reads the whole snapshot 1 from the target
C16_Witness ==
    /\ probe.fn = "load"
    /\ probe.kind = "sandbox"
    /\ probe.read = Snapshot("sandbox", 1)
    /\ Exists(tmp_path("sandbox"))
    /\ Len(disk[tmp_path("sandbox")]) = 1
    /\ disk[tmp_path("sandbox")][1][2] = 2
    /\ Exists(final_path("reasoning"))

-----------------------------------------------------------------------------
(* The reasoning graph under sequences of add_trace and get_plan *)

\* the number of add_trace calls on one graph
MaxTraces == 2

\* two queries with the same words and one other query
GraphQueries == {<<"List", "ws", "nodes">>, <<"nodes", "ws", "list">>, <<"x">>}

\* the tool path of a run: the tool name and the text of the tool message
GraphToolPaths ==
    {<<>>,
     << <<"list_nodes", <<"RESULT">>>> >>,
     << <<"list_nodes", <<"RESULT">>>>, <<"get_node", <<"RESULT">>>> >>,
     << <<"list_nodes", <<"RESULT">>>>, <<"list_nodes", <<"RESULT">>>> >>}

\* the final answer of a run: empty or some text
GraphAnswers == {<<>>, <<"w9">>}

GraphInit ==
    /\ Quiescent
    /\ cfg = DefaultConfig
    /\ turn_log = <<>>
    /\ reasoning_graph = ReasoningGraph
    /\ disk = NoFiles
    /\ save_pc = Idle
    /\ parked = NoInvocation
    /\ probe = NoProbe

\* reasoning_graph.add_trace(query, tool_calls, final_answer)
AddTrace(q, tool_calls, final_answer) ==
    /\ probe.fn = "none"
    /\ Len(reasoning_graph.added) < MaxTraces
    /\ q \in GraphQueries
    /\ tool_calls \in GraphToolPaths
    /\ final_answer \in GraphAnswers
    /\ reasoning_graph' = add_trace(reasoning_graph, q, tool_calls, final_answer)
    /\ UNCHANGED <<runvars, turn_log, parked, probe, disk, save_pc>>

\* reasoning_graph.get_plan(query), the embedder scoring the query as scores; the
\* lookup changes nothing of the graph, so one lookup is taken per sequence of traces
GetPlan(q, scores) ==
    /\ probe.fn = "none"
    /\ q \in GraphQueries
    /\ scores \in ScoresFor(reasoning_graph, q)
    /\ probe' = [fn |-> "get_plan", query |-> q, scores |-> scores,
                 result |-> get_plan(reasoning_graph, scores)]
    /\ UNCHANGED <<runvars, turn_log, parked, reasoning_graph, disk, save_pc>>

GraphNext ==
    \/ \E q \in GraphQueries, tool_calls \in GraphToolPaths, final_answer \in GraphAnswers :
          AddTrace(q, tool_calls, final_answer)
    \/ \E q \in GraphQueries : \E scores \in ScoresFor(reasoning_graph, q) : GetPlan(q, scores)

GraphSpec == GraphInit /\ [][GraphNext]_vars

-----------------------------------------------------------------------------
(* C17 *)

\* C17: get_plan returns none for every query whose best similarity to the indexed
\* exemplar queries is below the threshold, an empty index included, on every graph
\* that add_trace calls build.
C17_NoPlanBelowThreshold ==
    (probe.fn = "get_plan" /\ \A i \in 1..Len(probe.scores) : probe.scores[i] < 85)
    => (probe.result.returned /\ probe.result.none)

\* two exemplars, the better one at 0.5: no plan
C17_Witness ==
    /\ probe.fn = "get_plan"
    /\ Len(reasoning_graph.query_index) = 2
    /\ Len(probe.scores) = 2
    /\ probe.scores[1] = 50
    /\ probe.scores[2] = 0
    /\ reasoning_graph.succ[reasoning_graph.query_index[1].id] # <<>>
    /\ probe.result.none

-----------------------------------------------------------------------------
(* C18 *)

QueryNodes(g) == {n \in g.nodes : g.attrs[n].type = "query"}

\* the lowercase words of a query
WordsOf(q) == split([i \in 1..Len(q) |-> Lower(q[i])])

\* the two queries have the same lowercase words, each as often, in whatever order
SameWords(q1, q2) ==
    /\ Len(WordsOf(q1)) = Len(WordsOf(q2))
    /\ \A i \in 1..Len(WordsOf(q1)) :
          Cardinality({j \in 1..Len(WordsOf(q1)) : WordsOf(q1)[j] = WordsOf(q1)[i]})
            = Cardinality({j \in 1..Len(WordsOf(q2)) : WordsOf(q2)[j] = WordsOf(q1)[i]})

\* the nodes of the trace t after the query node n
PathNodes(n, t) ==
    <<n>> \o [i \in 1..Len(t.tool_calls) |->
                 tool_node_id(t.tool_calls[i][1], t.tool_calls[i][2])]
          \o (IF t.final_answer # <<>> THEN <<answer_node_id(t.final_answer)>> ELSE <<>>)

\* the graph holds the trace t as a path that starts at the node n
HasPath(g, n, t) ==
    \A i \in 1..(Len(PathNodes(n, t)) - 1) :
        /\ PathNodes(n, t)[i + 1] \in g.nodes
        /\ \E k \in 1..Len(g.succ[PathNodes(n, t)[i]]) :
              g.succ[PathNodes(n, t)[i]][k] = PathNodes(n, t)[i + 1]

\* C18: after any sequence of add_trace calls every query node ever created is still
\* in the graph, and an add_trace for a query with the canonical id of an existing
\* query node (the same lowercase words) creates no second query node and adds its
\* path from the existing query node.
C18_QueryNodesKeptAndShared ==
    [][/\ reasoning_graph.nodes \subseteq reasoning_graph'.nodes
       /\ QueryNodes(reasoning_graph) \subseteq QueryNodes(reasoning_graph')
       /\ reasoning_graph'.added # reasoning_graph.added
          => LET t == Last(reasoning_graph'.added)
                 old == {n \in QueryNodes(reasoning_graph) :
                            SameWords(reasoning_graph.attrs[n].text, t.query)}
             IN  old # {}
                 => /\ QueryNodes(reasoning_graph') = QueryNodes(reasoning_graph)
                    /\ \E n \in old : HasPath(reasoning_graph', n, t)]_vars

\* two traces for queries of the same words in another order: one query node, from
\* which the answer of the first trace and the tool of the second are reached
C18_Witness ==
    /\ Len(reasoning_graph.added) = 2
    /\ reasoning_graph.added[1].query # reasoning_graph.added[2].query
    /\ SameWords(reasoning_graph.added[1].query, reasoning_graph.added[2].query)
    /\ reasoning_graph.added[1].tool_calls = <<>>
    /\ reasoning_graph.added[1].final_answer # <<>>
    /\ Len(reasoning_graph.added[2].tool_calls) = 2
    /\ Cardinality(QueryNodes(reasoning_graph)) = 1
    /\ \A n \in QueryNodes(reasoning_graph) : Len(reasoning_graph.succ[n]) = 2

-----------------------------------------------------------------------------
(* C19 *)

\* C19: on an empty graph, after add_trace(q, [t1..tn], answer) with a non-empty
\* answer, get_plan(q) returns exactly the tool names of t1..tn in call order and no
\* other element.
C19_PlanIsToolNames ==
    (/\ probe.fn = "get_plan"
     /\ Len(reasoning_graph.added) = 1
     /\ reasoning_graph.added[1].final_answer # <<>>
     /\ probe.query = reasoning_graph.added[1].query)
    => /\ probe.result.returned
       /\ ~probe.result.none
       /\ probe.result.path = [i \in 1..Len(reasoning_graph.added[1].tool_calls) |->
                                  reasoning_graph.added[1].tool_calls[i][1]]

-----------------------------------------------------------------------------
(* C20 *)

\* the run of the scenario: on a fresh session the first output was a justified call
\* whose tool returned one outcome with view "table", the second output held the
\* sentinel, and the run returned
TableThenAnswer ==
    /\ pc = "returned"
    /\ Len(turn_log) = 1
    /\ Len(hist) = 2
    /\ hist[1].branch = "tool_ok"
    /\ hist[2].branch = "final"
    /\ sandbox.latest_view = "table"

\* the message is the text before the first sentinel of the model text, trailing
\* blanks apart
IsAnswerOf(m, text) ==
    /\ m.type = "ModelResponse"
    /\ m.model_name = "Model"
    /\ \E j \in 0..Len(BeforeSentinel(text)) :
          /\ m.content = SubSeq(BeforeSentinel(text), 1, j)
          /\ IsBlank(SubSeq(BeforeSentinel(text), j + 1, Len(BeforeSentinel(text))))

IsToolMessage(m) == m.type = "ModelResponse" /\ m.model_name = "Tool"

\* C20 as stated: the messages of the turn are exactly the user message, one tool
\* message carrying view "table", and the final answer.
C20_ExactlyUserToolFinal ==
    TableThenAnswer
    => /\ Len(chain) = 3
       /\ chain[1].type = "ModelRequest" /\ chain[1].content = query
       /\ IsToolMessage(chain[2])
       /\ IsAnswerOf(chain[3], hist[2].text)

\* the notes that follow a tool message
SteeringNotes ==
    {<<"NOTE_SUMMARIZE_OR_PROCEED">>, <<"NOTE_TOOL_STEP_COMPLETE">>, <<"NOTE_MAX_TOOL_STEPS">>}

\* C20: in that run the messages of the turn are, in order: the user message, the
\* explanation that precedes the call, the text of the call, one tool message (the only
\* one, its view "table" now the latest view), one or two steering notes, and the final
\* answer, which is the text before the sentinel.
C20_TurnMessagesInOrder ==
    TableThenAnswer
    => LET m == Find(hist[1].text, CallTokens) IN
       /\ Len(chain) \in {6, 7}
       /\ chain[1].type = "ModelRequest" /\ chain[1].content = query
       /\ chain[2].model_name = "Model"
       /\ chain[2].content = strip(SubSeq(hist[1].text, 1, m - 1))
       /\ chain[3].model_name = "Model"
       /\ chain[3].content = strip(SubSeq(hist[1].text, m, Len(hist[1].text)))
       /\ IsToolMessage(chain[4])
       /\ chain[4].tool = ToolName(hist[1].text[m])
       /\ \A i \in 1..Len(chain) : IsToolMessage(chain[i]) => i = 4
       /\ \A i \in 5..(Len(chain) - 1) :
             chain[i].model_name = "Model" /\ chain[i].content \in SteeringNotes
       /\ chain[5].content = <<"NOTE_SUMMARIZE_OR_PROCEED">>
       /\ IsAnswerOf(chain[Len(chain)], hist[2].text)
       /\ sandbox.messages = chain

\* the scenario with room for more tool steps: six messages
C20_Witness ==
    /\ TableThenAnswer
    /\ cfg.max_tool_steps = 2
    /\ ~cfg.auto_finalize_after_tool
    /\ Len(chain) = 6
    /\ IsToolMessage(chain[4])
    /\ hist[2].text = <<"ws", "w9", "ws", "END", "ws", "x">>

-----------------------------------------------------------------------------
(* C24 *)

\* C24: in every reachable state tools_run <= max_tool_steps, for every configuration
\* with max_tool_steps >= 0; and whenever tools_run >= max_tool_steps at the start of an
\* iteration, the mode is FINALIZING.
C24_ToolsRunWithinCap ==
    /\ state.tools_run <= cfg.max_tool_steps
    /\ (pc = "loop" /\ iters < cfg.max_iters /\ state.tools_run >= cfg.max_tool_steps)
          => state.mode = "FINALIZING"

-----------------------------------------------------------------------------
(* C25 *)

\* C25: with auto_finalize_after_tool set, the mode is FINALIZING right after the first
\* successful tool execution, so at most one tool call succeeds per run; with the flag
\* unset, a successful execution that leaves tools_run below the cap leaves the mode
\* INTERACTIVE.
C25_AutoFinalizeAfterTool ==
    /\ [](cfg.auto_finalize_after_tool => Cardinality(SuccessfulExecutions) <= 1)
    /\ [][(IterationStep /\ Last(hist').branch = "tool_ok") =>
             IF cfg.auto_finalize_after_tool
             THEN state'.mode = "FINALIZING"
             ELSE (state'.tools_run < cfg.max_tool_steps => state'.mode = "INTERACTIVE")]_vars

\* the flag is set and the first tool step succeeded with a cap of two: FINALIZING,
\* and a further call was proposed and not executed
C25_Witness ==
    /\ cfg.auto_finalize_after_tool
    /\ cfg.max_tool_steps = 2
    /\ Len(hist) = 2
    /\ hist[1].branch = "tool_ok"
    /\ hist[2].mode = "FINALIZING"
    /\ hist[2].text = <<"w12", "ws", "callB">>
    /\ state.tools_run = 1
    /\ Len(provider_calls) = 1

-----------------------------------------------------------------------------
(* C27 *)

\* the notes among the messages a step appended
AppendedNotes == {i \in 1..Len(Appended) : Appended[i].by = "note"}

\* C27: when an executed tool call yields zero outcomes, tools_run and mode are left
\* unchanged and no tool message is appended; exactly one corrective note is appended
\* and the loop proceeds to the next iteration.
C27_SoftFailureFrame ==
    [][(IterationStep /\ Last(hist').branch = "soft_fail") =>
          /\ provider_calls' # provider_calls
          /\ state'.tools_run = state.tools_run
          /\ state'.mode = state.mode
          /\ ~AppendedBy("tool")
          /\ Cardinality(AppendedNotes) = 1
          /\ Last(chain').content = <<"NOTE_NO_RESULT">>
          /\ pc' = "loop"]_vars

\* a call was handed to the provider and yielded nothing; the run goes on
C27_Witness ==
    /\ Len(hist) = 1
    /\ hist[1].branch = "soft_fail"
    /\ Len(provider_calls) = 1
    /\ state.tools_run = 0
    /\ state.mode = "INTERACTIVE"
    /\ Last(chain).content = <<"NOTE_NO_RESULT">>
    /\ pc = "loop"

-----------------------------------------------------------------------------
(* C28 *)

\* an earlier iteration handed the same call to the provider and got no outcome
SoftFailedBefore(text) ==
    \E i \in 1..Len(hist) :
        /\ hist[i].branch = "soft_fail"
        /\ SameCall(ProposedToken(hist[i].text), ProposedToken(text))

-----------------------------------------------------------------------------
(* C30 *)

\* the canonical id of the first call written in a text
FirstWrittenId(text) ==
    _canonical_tool_id(ToolName(ProposedToken(text)), ToolArgs(ProposedToken(text)))

\* the canonical ids of the calls of a text after the first one
LaterCallIds(text) ==
    LET calls == detect_tool_calls(text)
    IN  {_canonical_tool_id(calls[i].tool_name, calls[i].arguments) : i \in 2..Len(calls)}

\* C30: at most one tool call is handed to the tool provider per iteration; when one
\* model output contains several tool calls, only the first is executed, and the
\* others are neither executed nor recorded in executed_tool_calls.
C30_OnlyFirstCallExecuted ==
    [][IterationStep =>
          /\ Len(provider_calls') <= Len(provider_calls) + 1
          /\ list_tools_calls' <= list_tools_calls + 1
          /\ (provider_calls' # provider_calls) =>
                /\ Last(provider_calls') = FirstWrittenId(Last(hist').text)
                /\ state'.executed_tool_calls \ state.executed_tool_calls
                      \subseteq {FirstWrittenId(Last(hist').text)}
                /\ Cardinality({i \in 1..Len(Appended) : Appended[i].by = "tool"}) <= 1
          /\ (provider_calls' = provider_calls) =>
                state'.executed_tool_calls = state.executed_tool_calls]_vars

\* an output with two different calls: the first ran, the second is not recorded
C30_Witness ==
    /\ Len(hist) = 1
    /\ hist[1].branch = "tool_ok"
    /\ Len(detect_tool_calls(hist[1].text)) = 2
    /\ provider_calls = <<FirstWrittenId(hist[1].text)>>
    /\ LaterCallIds(hist[1].text) # {}
    /\ LaterCallIds(hist[1].text) \cap state.executed_tool_calls = {}
    /\ Cardinality({i \in 1..Len(chain) : chain[i].by = "tool"}) = 1

-----------------------------------------------------------------------------
(* The synthesized answer of the forced exit as a function of the raw text *)

MaxSummaryTokens == 5

\* raw model texts of up to 700 characters that reach _force_summarized_exit: they
\* look like a tool call and hold no sentinel
SummaryTexts ==
    {t \in SeqsUpTo({"shape", "ws", "w70", "w200"}, MaxSummaryTokens) :
        _looks_like_tool_json(t)}

SummaryInit ==
    /\ Quiescent
    /\ cfg = DefaultConfig
    /\ turn_log = <<>>
    /\ reasoning_graph = ReasoningGraph
    /\ disk = NoFiles
    /\ save_pc = Idle
    /\ parked = NoInvocation
    /\ probe \in [fn : {"summary"}, text : SummaryTexts, out : {<<>>}]

\* _force_summarized_exit builds the summary with the sentinel and _emit_final_answer
\* takes the answer out of it
ForceSummarizedExit ==
    /\ probe.fn = "summary"
    /\ probe.out = <<>>
    /\ probe' = [probe EXCEPT !.out = <<FinalText(SummaryWithSentinel(probe.text))>>]
    /\ UNCHANGED <<runvars, turn_log, parked, reasoning_graph, disk, save_pc>>

SummaryNext == ForceSummarizedExit

SummarySpec == SummaryInit /\ [][SummaryNext]_vars

-----------------------------------------------------------------------------
(* C26 *)

Synthesized == probe.fn = "summary" /\ probe.out # <<>>

\* C26: the synthesized final answer emitted when the finalize-nudge budget is
\* exceeded is at most 500 characters long, for every length of raw model text.
C26_AnswerAtMost500 ==
    Synthesized => TextLen(probe.out[1]) <= SummaryLimit

\* C26, amended: the synthesized answer is the fixed 93-character introduction followed
\* by at most the first 500 characters of the stripped raw text, so it is at most 593
\* characters long.
C26_RawTextAtMost500 ==
    Synthesized =>
       /\ Head(probe.out[1]) = "SUMMARY"
       /\ TextLen(Tail(probe.out[1])) <= SummaryLimit
       /\ TextLen(probe.out[1]) <= SummaryPrefixLen + SummaryLimit

\* a raw text of 700 characters is cut to 500 and the answer has 593
C26_Witness ==
    /\ Synthesized
    /\ TextLen(probe.text) = 700
    /\ TextLen(probe.out[1]) = SummaryPrefixLen + SummaryLimit

-----------------------------------------------------------------------------
(* A run under the default configuration, long enough to use up the justification
   budget *)

JustifyTexts == {
    <<"w9", "ws", "callA">>,
    <<"w12", "ws", "callA">>,
    <<"w12", "ws", "callB">>,
    <<"ws", "w9", "ws", COT_END_PROMPT, "ws", "x">>
}

JustifyBehaviours == {"ok_table", "call_raises"}

\* a fresh session and ChainOfThought(query, sandbox) with config = None
JustifyInit ==
    /\ cfg = DefaultConfig
    /\ pc = "start"
    /\ error = "none"
    /\ state = CoTState
    /\ iters = 0
    /\ query \in Queries
    /\ LET q == query IN
          LET st == _append([chain |-> <<>>, sandbox |-> reset(SandboxState, q)],
                            UserRequest(q), None)
          IN  chain = st.chain /\ sandbox = st.sandbox
    /\ provider_calls = <<>>
    /\ list_tools_calls = 0
    /\ trace_calls = <<>>
    /\ dump_file = NoDump
    /\ hist = <<>>
    /\ turn_log = <<[query |-> query, reset |-> TRUE, seeded |-> TRUE, plan |-> NoPlan]>>
    /\ reasoning_graph = ReasoningGraph
    /\ probe = NoProbe
    /\ disk = NoFiles
    /\ save_pc = Idle
    /\ parked = NoInvocation

JustifyNext ==
    \/ BuildSystemPrompt
    \/ \E text \in JustifyTexts :
          \/ IterFinalAnswer(text)
          \/ IterFinalizeNudge(text)
          \/ IterJustificationNudge(text)
          \/ IterDuplicate(text)
          \/ \E behaviour \in JustifyBehaviours : IterExecuteTool(text, behaviour)
    \/ MaxItersExceeded

JustifySpec == JustifyInit /\ [][JustifyNext]_vars

-----------------------------------------------------------------------------
(* C29 *)

\* the length of the stripped text written before the first call of a text
PrecedingLen(text) == TextLen(strip(SubSeq(text, 1, Find(text, CallTokens) - 1)))

\* C29: while fewer than 3 justification nudges were given in the run, a detected tool
\* call preceded by fewer than 12 characters of text is neither executed nor recorded
\* as executed in that iteration; one note is appended and justification_nudges grows
\* by one; justification_nudges never exceeds 3.
C29_JustificationBeforeExecution ==
    /\ [](state.justification_nudges <= MaxJustificationNudges)
    /\ [][(/\ IterationStep
            /\ Last(hist').mode = "INTERACTIVE"
            /\ ProposesCall(Last(hist').text)
            /\ PrecedingLen(Last(hist').text) < MinJustificationLen
            /\ state.justification_nudges < MaxJustificationNudges) =>
               /\ provider_calls' = provider_calls
               /\ state'.executed_tool_calls = state.executed_tool_calls
               /\ state'.last_tool_id = state.last_tool_id
               /\ state'.tools_run = state.tools_run
               /\ state'.justification_nudges = state.justification_nudges + 1
               /\ Len(Appended) = 1
               /\ Last(chain').content = <<"NOTE_JUSTIFY">>
               /\ pc' = "loop"]_vars

\* three nudges used up the budget; the fourth proposal with a short text is executed
C29_Witness ==
    /\ Len(hist) = 4
    /\ \A i \in 1..3 : hist[i].branch = "justify"
    /\ hist[4].branch = "tool_ok"
    /\ PrecedingLen(hist[4].text) < MinJustificationLen
    /\ state.justification_nudges = MaxJustificationNudges
    /\ Len(provider_calls) = 1

-----------------------------------------------------------------------------
(* The turns of one session as post_chat handles them (client.py) *)

MaxRequests == 1

TurnQueries == {<<"a", "b", "c">>}

TurnTexts == {
    <<"w9", "ws", "callA">>,
    <<"w12", "ws", "callA">>,
    <<"ws", "w9", "ws", COT_END_PROMPT, "ws", "x">>
}

\* the graph of a session that is new, or that an earlier process left on disk after a
\* turn with one tool step whose stream failed before the sandbox was saved
PriorGraphs ==
    {ReasoningGraph}
    \cup {add_trace(ReasoningGraph, q, << <<"list_nodes", <<"RESULT">>>> >>, <<"ws", "w9">>) :
            q \in TurnQueries}

\* the process has handled no request yet: the stores are empty, no sandbox file
\* exists, and the graph is the one load_reasoning_graph finds, if any
TurnInit ==
    /\ Quiescent
    /\ cfg = DefaultConfig
    /\ turn_log = <<>>
    /\ reasoning_graph \in PriorGraphs
    /\ disk = IF reasoning_graph = ReasoningGraph THEN NoFiles
              ELSE WriteFile(NoFiles, final_path("reasoning"), <<reasoning_graph>>)
    /\ save_pc = Idle
    /\ parked = NoInvocation
    /\ probe = NoProbe

\* stream_messages up to the constructor: the sandbox and the graph of the session
\* come from the stores of the process, and ChainOfThought is built with the default
\* configuration
PostChat(q, scores) ==
    /\ Len(turn_log) < MaxRequests
    /\ Construct(q, scores)

\* stream_messages after run_cot has returned: the graph is saved; every part of the
\* chain but the first is handed to to_chat_message together with latest_view, which
\* to_chat_message (chat.py:13, one parameter) rejects with a TypeError, so the sandbox
\* is saved only when the chain holds nothing to emit
StreamAndPersist ==
    /\ pc = "returned"
    /\ LET saved == WriteFile(disk, final_path("reasoning"), <<reasoning_graph>>)
       IN  IF Len(chain) > 1
           THEN /\ pc' = "stream_failed"
                /\ error' = "TypeError"
                /\ disk' = saved
           ELSE /\ pc' = "done"
                /\ error' = error
                /\ disk' = WriteFile(saved, final_path("sandbox"), <<to_dict(sandbox)>>)
    /\ UNCHANGED <<cfg, query, state, iters, chain, sandbox, provider_calls,
                   list_tools_calls, trace_calls, dump_file, hist, turn_log, parked,
                   reasoning_graph, probe, save_pc>>

TurnNext ==
    \/ /\ NoRunInProgress
       /\ \E q \in TurnQueries : \E scores \in ScoresFor(reasoning_graph, q) :
             PostChat(q, scores)
    \/ BuildSystemPrompt
    \/ \E text \in TurnTexts :
          \/ IterFinalAnswer(text)
          \/ IterFinalizeNudge(text)
          \/ IterJustificationNudge(text)
          \/ IterDuplicate(text)
          \/ \E behaviour \in JustifyBehaviours : IterExecuteTool(text, behaviour)
    \/ MaxItersExceeded
    \/ StreamAndPersist

TurnSpec == TurnInit /\ [][TurnNext]_vars

-----------------------------------------------------------------------------
(* C21 *)

\* the controller of the current turn was built with a plan
PlanPresent == turn_log # <<>> /\ Last(turn_log).plan.some

\* run_cot of the current turn has returned
Succeeded == pc \in {"returned", "done", "stream_failed"}

\* C21: when a cached plan is present, a run never terminates successfully without a
\* sentinel in the model output unless at least one tool step has completed in that
\* run.
C21_NoSuccessWithoutSentinelOrToolStep ==
    (Succeeded /\ PlanPresent /\ ~HasSentinel(Last(hist).text)) => state.tools_run >= 1

\* C21, amended: with a cached plan the run does not stop early: the step that
\* completes the expected number of tool steps of the plan leaves the loop running,
\* and a run returns without a sentinel in the model output only by the forced
\* summarized exit, in FINALIZING mode after more than max_finalize_nudges nudges,
\* whether or not a tool step has completed.
C21_PlanNeverEndsRun ==
    /\ []((Succeeded /\ ~HasSentinel(Last(hist).text)) =>
             /\ Last(hist).branch = "forced_exit"
             /\ Last(hist).mode = "FINALIZING"
             /\ state.finalize_nudges > cfg.max_finalize_nudges)
    /\ [][(/\ IterationStep
            /\ PlanPresent
            /\ state'.tools_run > state.tools_run
            /\ state'.tools_run >= Len(Last(turn_log).plan.steps)) => pc' = "loop"]_vars

\* a turn with a plan of one step: the call yielded nothing, was proposed again, and
\* the finalize nudges ran out: a forced exit without any completed tool step
C21_Witness ==
    /\ pc = "returned"
    /\ PlanPresent
    /\ Last(turn_log).plan.steps = <<"list_nodes">>
    /\ Last(hist).branch = "forced_exit"
    /\ hist[1].branch = "soft_fail"
    /\ state.tools_run = 0

-----------------------------------------------------------------------------
(* C22 *)

\* the messages of the sandbox snapshot on disk
PersistedMessages ==
    IF Exists(final_path("sandbox")) THEN disk[final_path("sandbox")][1].messages ELSE <<>>

\* every tool message of the turn is in the snapshot
ToolMessagesPersisted ==
    \A i \in 1..Len(chain) :
        chain[i].by = "tool" =>
            \E k \in 1..Len(PersistedMessages) : PersistedMessages[k] = dump_message(chain[i])

\* C22: during a turn the sandbox is written to durable storage after each tool round
\* and again at the end of the turn, so whenever a tool step has completed, also when
\* the run then ends in the fatal max_iters error, the tool message of that step is
\* in the persisted snapshot.
C22_ToolRoundsPersisted ==
    (pc \in {"loop", "raised", "done", "stream_failed"}) => ToolMessagesPersisted

-----------------------------------------------------------------------------
(* Two invocations of run_cot in one event loop *)

\* the configuration of the two controllers
PairConfig ==
    [max_iters |-> 3, max_tool_steps |-> 2, max_finalize_nudges |-> 1,
     auto_finalize_after_tool |-> FALSE]

\* the query of the second request: the one of the first, or one of another topic
PairQueries == {<<"a", "b", "c">>, <<"x", "y">>}

\* variant: one CoTState object serves every invocation
ResumeState_shared(own, current) == current

\* cot.py:164 "state = CoTState()": the state is a local of the invocation, so the
\* invocation that resumes finds its own
ResumeState(own, current) == own

\* what belongs to the invocation that runs: its controller and its locals, and the
\* sandbox and graph of its session
Locals ==
    [query |-> query, pc |-> pc, error |-> error, state |-> state, iters |-> iters,
     chain |-> chain, provider_calls |-> provider_calls,
     list_tools_calls |-> list_tools_calls, trace_calls |-> trace_calls, hist |-> hist,
     sandbox |-> sandbox, reasoning_graph |-> reasoning_graph]

\* a controller built for query q on sandbox sb, before run_cot is called
Constructed(q, sb) ==
    LET drift == ~is_same_topic(sb, q, TopicThreshold)
        cleared == IF drift THEN reset(sb, q) ELSE sb
        st == IF ~AlreadySeeded(cleared, q)
              THEN _append([chain |-> <<>>, sandbox |-> cleared], UserRequest(q), None)
              ELSE [chain |-> <<>>, sandbox |-> cleared]
    IN  [query |-> q, pc |-> "start", error |-> "none", state |-> CoTState, iters |-> 0,
         chain |-> st.chain, provider_calls |-> <<>>, list_tools_calls |-> 0,
         trace_calls |-> <<>>, hist |-> <<>>,
         sandbox |-> st.sandbox, reasoning_graph |-> ReasoningGraph]

\* two requests have been accepted, for one session or for two; both controllers are
\* built, invocation 1 is about to run and invocation 2 waits
PairInit ==
    /\ cfg = PairConfig
    /\ \E q1 \in TurnQueries, q2 \in PairQueries, same \in BOOLEAN :
          LET first == Constructed(q1, SandboxState)
              second == Constructed(q2, IF same THEN first.sandbox ELSE SandboxState)
          IN  /\ query = q1
              /\ chain = first.chain
              /\ sandbox = IF same THEN second.sandbox ELSE first.sandbox
              /\ parked = [id |-> 2, same_session |-> same, locals |-> second]
    /\ pc = "start"
    /\ error = "none"
    /\ state = CoTState
    /\ iters = 0
    /\ provider_calls = <<>>
    /\ list_tools_calls = 0
    /\ trace_calls = <<>>
    /\ dump_file = NoDump
    /\ hist = <<>>
    /\ turn_log = <<>>
    /\ reasoning_graph = ReasoningGraph
    /\ probe = NoProbe
    /\ disk = NoFiles
    /\ save_pc = Idle

\* the running invocation waits at an await (the model stream, the tool provider) or
\* has ended, and the event loop resumes the other one; the sandbox and the graph of a
\* common session stay in place
Switch ==
    /\ parked.id # 0
    /\ parked.locals.pc \in {"start", "loop"}
    /\ parked' = [id |-> 3 - parked.id, same_session |-> parked.same_session,
                  locals |-> Locals]
    /\ query' = parked.locals.query
    /\ pc' = parked.locals.pc
    /\ error' = parked.locals.error
    /\ state' = ResumeState(parked.locals.state, state)
    /\ iters' = parked.locals.iters
    /\ chain' = parked.locals.chain
    /\ provider_calls' = parked.locals.provider_calls
    /\ list_tools_calls' = parked.locals.list_tools_calls
    /\ trace_calls' = parked.locals.trace_calls
    /\ hist' = parked.locals.hist
    /\ sandbox' = IF parked.same_session THEN sandbox ELSE parked.locals.sandbox
    /\ reasoning_graph' = IF parked.same_session THEN reasoning_graph
                          ELSE parked.locals.reasoning_graph
    /\ UNCHANGED <<cfg, dump_file, turn_log, probe, disk, save_pc>>

PairNext ==
    \/ Switch
    \/ BuildSystemPrompt
    \/ \E text \in TurnTexts :
          \/ IterFinalAnswer(text)
          \/ IterFinalizeNudge(text)
          \/ IterJustificationNudge(text)
          \/ IterDuplicate(text)
          \/ \E behaviour \in JustifyBehaviours : IterExecuteTool(text, behaviour)
    \/ MaxItersExceeded

PairSpec == PairInit /\ [][PairNext]_vars

-----------------------------------------------------------------------------
(* C23 *)

\* the invocation that runs
Active == 3 - parked.id

\* the CoTState of invocation i
StateOf(i) == IF i = Active THEN state ELSE parked.locals.state

\* the fields of CoTState that steer the run
Steering(s) ==
    <<s.mode, s.tools_run, s.executed_tool_calls, s.last_tool_id, s.finalize_nudges,
      s.justification_nudges>>

\* C23: CoTState belongs to one invocation: in every interleaving of two run_cot
\* invocations, on one session or on two, mode, tools_run, executed_tool_calls,
\* last_tool_id and the nudge counters of an invocation change only in an iteration
\* of that invocation, never by a tool call or a nudge of the other.
C23_StateOwnedByInvocation ==
    [][\A i \in {1, 2} :
          (Steering(StateOf(i)') # Steering(StateOf(i))) =>
              (i = Active /\ Active' = Active /\ IterationStep)]_vars

\* both invocations have executed a tool on the same session and each has counted its
\* own step; invocation 2 was nudged once, invocation 1 never
C23_Witness ==
    /\ parked.id # 0
    /\ parked.same_session
    /\ StateOf(1).tools_run = 1
    /\ StateOf(2).tools_run = 1
    /\ StateOf(1).justification_nudges = 0
    /\ StateOf(2).justification_nudges = 1
    /\ StateOf(1).mode = "FINALIZING"
    /\ StateOf(2).mode = "INTERACTIVE"

-----------------------------------------------------------------------------
(* C31 *)

\* C31: within one run the tool catalogue is requested from the tool provider
\* (list_tools) at most once, however many iterations and tool executions the run
\* performs.
C31_CatalogueRequestedOnce == list_tools_calls <= 1

-----------------------------------------------------------------------------
(* The accumulation of the model stream (_stream_model_text) *)

MaxParts == 3
MaxChunkLen == 2

\* the items a stream can yield, as sequences of characters
StreamChunks == SeqsUpTo({"a", "b"}, MaxChunkLen)

\* chunk.startswith(prev_chunk)
StartsWith(chunk, prev_chunk) ==
    /\ Len(prev_chunk) <= Len(chunk)
    /\ SubSeq(chunk, 1, Len(prev_chunk)) = prev_chunk

\* variant: every item is taken whole
Delta_whole(chunk, prev_chunk) == chunk

\* cot.py:404: what one item adds to the buffer
Delta(chunk, prev_chunk) ==
    IF StartsWith(chunk, prev_chunk)
    THEN SubSeq(chunk, Len(prev_chunk) + 1, Len(chunk))
    ELSE chunk

\* "".join(parts)
RECURSIVE Concat(_)
Concat(parts) == IF parts = <<>> THEN <<>> ELSE Head(parts) \o Concat(Tail(parts))

\* a stream about to be read: buffer = [] and prev_chunk = ""
StreamInit ==
    /\ Quiescent
    /\ cfg = DefaultConfig
    /\ turn_log = <<>>
    /\ reasoning_graph = ReasoningGraph
    /\ disk = NoFiles
    /\ save_pc = Idle
    /\ parked = NoInvocation
    /\ probe \in [fn : {"stream"}, parts : SeqsUpTo(StreamChunks, MaxParts), read : {0},
                  buffer : {<<>>}, prev_chunk : {<<>>}, text : {<<>>}, done : {FALSE}]

\* one pass of the async for: the next item of the stream
StreamPart ==
    /\ probe.fn = "stream"
    /\ probe.read < Len(probe.parts)
    /\ LET chunk == probe.parts[probe.read + 1]
       IN  probe' = [probe EXCEPT !.read = @ + 1,
                                  !.buffer = Append(@, Delta(chunk, probe.prev_chunk)),
                                  !.prev_chunk = chunk]
    /\ UNCHANGED <<runvars, turn_log, parked, reasoning_graph, disk, save_pc>>

\* the stream has ended: return "".join(buffer)
StreamEnd ==
    /\ probe.fn = "stream"
    /\ probe.read = Len(probe.parts)
    /\ ~probe.done
    /\ probe' = [probe EXCEPT !.text = Concat(probe.buffer), !.done = TRUE]
    /\ UNCHANGED <<runvars, turn_log, parked, reasoning_graph, disk, save_pc>>

StreamNext == StreamPart \/ StreamEnd

StreamSpec == StreamInit /\ [][StreamNext]_vars

-----------------------------------------------------------------------------
(* C32 *)

Streamed == probe.fn = "stream" /\ probe.done

\* every item has the item before it as a prefix
IsCumulative(parts) ==
    \A i \in 2..Len(parts) :
        /\ Len(parts[i - 1]) <= Len(parts[i])
        /\ \A k \in 1..Len(parts[i - 1]) : parts[i][k] = parts[i - 1][k]

\* C32: if the model stream re-emits cumulative text (every item has the previous item
\* as a prefix), the accumulated text of the iteration equals the last item, with
\* nothing counted twice.
C32_CumulativeStreamGivesLastItem ==
    (Streamed /\ probe.parts # <<>> /\ IsCumulative(probe.parts))
    => probe.text = Last(probe.parts)

\* three growing items, one of them repeated
C32_Witness ==
    /\ Streamed
    /\ probe.parts = << <<"a">>, <<"a">>, <<"a", "b">> >>
    /\ probe.text = <<"a", "b">>

-----------------------------------------------------------------------------
(* C33 *)

\* C33: if the model stream emits incremental chunks, the accumulated text of the
\* iteration equals the concatenation of all chunks in order, for every chunk
\* sequence, also when a chunk begins with the text of the chunk before it.
C33_IncrementalStreamConcatenated ==
    Streamed => probe.text = Concat(probe.parts)

-----------------------------------------------------------------------------
(* Sequences of reset and extend on one SandboxState *)

MaxOps == 3

\* the view argument of extend: absent, the empty string, or a rendering hint
ViewArgs == {None, "", "table", "graph"}

SandboxQueries == {<<"a", "b", "c">>, <<"x", "y">>}

\* a SandboxState as constructed; probe.ops logs the calls made on it
SandboxInit ==
    /\ Quiescent
    /\ cfg = DefaultConfig
    /\ turn_log = <<>>
    /\ reasoning_graph = ReasoningGraph
    /\ disk = NoFiles
    /\ save_pc = Idle
    /\ parked = NoInvocation
    /\ probe = [fn |-> "sandbox", ops |-> <<>>]

\* sandbox.reset(query)
SandboxReset(q) ==
    /\ probe.fn = "sandbox"
    /\ Len(probe.ops) < MaxOps
    /\ sandbox' = reset(sandbox, q)
    /\ probe' = [probe EXCEPT !.ops = Append(@, [op |-> "reset", view |-> None])]
    /\ UNCHANGED <<cfg, query, pc, error, state, iters, chain, provider_calls,
                   list_tools_calls, trace_calls, dump_file, hist, turn_log, parked,
                   reasoning_graph, disk, save_pc>>

\* sandbox.extend(message, view)
SandboxExtend(view) ==
    /\ probe.fn = "sandbox"
    /\ Len(probe.ops) < MaxOps
    /\ sandbox' = extend(sandbox, ToolResponse(<<"RESULT">>, "callA"), view)
    /\ probe' = [probe EXCEPT !.ops = Append(@, [op |-> "extend", view |-> view])]
    /\ UNCHANGED <<cfg, query, pc, error, state, iters, chain, provider_calls,
                   list_tools_calls, trace_calls, dump_file, hist, turn_log, parked,
                   reasoning_graph, disk, save_pc>>

SandboxNext ==
    \/ \E q \in SandboxQueries : SandboxReset(q)
    \/ \E view \in ViewArgs : SandboxExtend(view)

SandboxSpec == SandboxInit /\ [][SandboxNext]_vars

-----------------------------------------------------------------------------
(* C34 *)

\* the view passed to the most recent extend that passed one since the last reset
RECURSIVE LastProvided(_)
LastProvided(ops) ==
    IF ops = <<>> THEN None
    ELSE LET o == ops[Len(ops)]
         IN  IF o.op = "reset" THEN None
             ELSE IF o.view # None THEN o.view
             ELSE LastProvided(SubSeq(ops, 1, Len(ops) - 1))

LatestViewIsLastProvided ==
    probe.fn = "sandbox" => sandbox.latest_view = LastProvided(probe.ops)

ExtendWithoutViewFrame ==
    (/\ probe.fn = "sandbox"
     /\ Len(probe'.ops) = Len(probe.ops) + 1
     /\ Last(probe'.ops) = [op |-> "extend", view |-> None])
    => /\ sandbox'.latest_view = sandbox.latest_view
       /\ sandbox'.topic_anchor = sandbox.topic_anchor
       /\ Len(sandbox'.messages) = Len(sandbox.messages) + 1
       /\ SubSeq(sandbox'.messages, 1, Len(sandbox.messages)) = sandbox.messages

\* C34: after any sequence of reset and extend operations on a SandboxState,
\* latest_view equals the view passed to the most recent extend that provided a view
\* since the last reset, and is unset if there was none; extend without a view leaves
\* latest_view and topic_anchor unchanged and only appends one message.
C34_LatestViewTracksExtend ==
    []LatestViewIsLastProvided /\ [][ExtendWithoutViewFrame]_vars

-----------------------------------------------------------------------------
(* C35 *)

\* the graph as the run found it and as add_trace has left it
GraphAfterRun ==
    /\ pc = "returned" =>
          /\ Len(trace_calls) = 1
          /\ Len(reasoning_graph.added) = 1
          /\ reasoning_graph.added[1] = trace_calls[1]
          /\ reasoning_graph.query_index # ReasoningGraph.query_index
    /\ pc = "raised" =>
          /\ trace_calls = <<>>
          /\ reasoning_graph = ReasoningGraph

\* the graph changes only in the step that returns, and that step calls add_trace once
GraphChangesOnReturn ==
    /\ reasoning_graph' # reasoning_graph =>
          /\ pc = "loop" /\ pc' = "returned"
          /\ Len(trace_calls') = Len(trace_calls) + 1
    /\ pc' = "raised" => reasoning_graph' = reasoning_graph

\* C35: the reasoning graph is modified by exactly one add_trace call in every run
\* that returns (by sentinel or by forced exit) and by none in a run that raises; a run
\* that ends in the fatal max_iters error leaves the graph and the query index
\* unchanged.
C35_OneTracePerReturnedRun == []GraphAfterRun /\ [][GraphChangesOnReturn]_vars

\* a run that executed a tool and left by the forced exit recorded one trace
C35_Witness ==
    /\ pc = "returned"
    /\ Last(hist).branch = "forced_exit"
    /\ Len(provider_calls) > 0
    /\ Len(reasoning_graph.added) = 1
    /\ Len(reasoning_graph.added[1].tool_calls) > 0

-----------------------------------------------------------------------------
(* C36 *)

\* the lookup of the probe matched a query node of the graph
Matched ==
    /\ probe.fn = "get_plan"
    /\ match_query(reasoning_graph, probe.scores, MatchThreshold) # NoMatch

\* C36: get_plan terminates for every matched query on every graph reachable by any
\* sequence of add_trace calls, including traces in which the same tool node id occurs
\* more than once and graphs built from several traces.
C36_GetPlanTerminates == Matched => probe.result.returned

-----------------------------------------------------------------------------
(* C37 *)

\* the tool names of the calls of a recorded trace
ToolNamesOf(t) == [i \in 1..Len(t.tool_calls) |-> t.tool_calls[i][1]]

\* the tool names of a returned plan: the entries that name a tool
PlanToolNames(path) == SelectSeq(path, LAMBDA p : p # None)

\* C37: after any sequence of add_trace calls, the tool-name sequence that get_plan
\* returns for a matched query equals the tool-name sequence of some trace previously
\* recorded for that same canonical query; it is never a mixture of steps from traces
\* of different queries.
C37_PlanIsOneRecordedTrace ==
    (Matched /\ probe.result.returned)
    => \E i \in 1..Len(reasoning_graph.added) :
          /\ _canonicalize(reasoning_graph.added[i].query)
                = match_query(reasoning_graph, probe.scores, MatchThreshold)
          /\ ToolNamesOf(reasoning_graph.added[i]) = PlanToolNames(probe.result.path)

-----------------------------------------------------------------------------
(* C38 *)

\* the running invocation is about to open the model stream with
\* message_history = self.sandbox.messages
AboutToStream == parked.id # 0 /\ pc = "loop" /\ iters < cfg.max_iters

\* C38: for any interleaving, at await points, of two controller invocations that
\* share one session's SandboxState, the message history that a run passes to the
\* model always contains that run's own user query and every message the run has
\* appended so far.
C38_HistoryHoldsOwnMessages ==
    (AboutToStream /\ parked.same_session)
    => /\ AlreadySeeded(sandbox, query)
       /\ \A i \in 1..Len(chain) :
             \E k \in 1..Len(sandbox.messages) : sandbox.messages[k] = chain[i]

-----------------------------------------------------------------------------
(* Several turns of one session in one process, with the response stream *)

MaxStreamedTurns == 2

\* to_chat_message(part, sandbox.latest_view): chat.py:13 takes one parameter, so the
\* call with two arguments raises a TypeError before anything is converted
to_chat_message_raises(part, view) == TRUE

\* client.py:132-141, the loop over cot.chain: a part equal to chain[0] is skipped,
\* which is the first part alone since every message carries the time of its creation;
\* the others are converted and yielded; emitted holds what was yielded when the loop
\* ended or raised
RECURSIVE StreamParts(_, _, _, _)
StreamParts(ch, i, view, emitted) ==
    IF i > Len(ch) THEN [raised |-> FALSE, emitted |-> emitted]
    ELSE IF i = 1 THEN StreamParts(ch, i + 1, view, emitted)
    ELSE IF to_chat_message_raises(ch[i], view) THEN [raised |-> TRUE, emitted |-> emitted]
    ELSE StreamParts(ch, i + 1, view, Append(emitted, ch[i]))

\* the process has handled no request yet; probe.streams logs the response streams
StreamedInit ==
    /\ Quiescent
    /\ cfg = DefaultConfig
    /\ turn_log = <<>>
    /\ reasoning_graph = ReasoningGraph
    /\ disk = NoFiles
    /\ save_pc = Idle
    /\ parked = NoInvocation
    /\ probe = [fn |-> "post_chat", streams |-> <<>>]

\* stream_messages up to the constructor
StreamedRequest(q, scores) ==
    /\ Len(turn_log) < MaxStreamedTurns
    /\ Construct(q, scores)

\* stream_messages after run_cot has returned: the graph is saved, the parts of the
\* chain are streamed, and the sandbox is saved after the loop if the loop ended
StreamMessages ==
    /\ pc = "returned"
    /\ probe.fn = "post_chat"
    /\ LET saved == WriteFile(disk, final_path("reasoning"), <<reasoning_graph>>)
           out == StreamParts(chain, 1, sandbox.latest_view, <<>>)
       IN  /\ probe' = [probe EXCEPT !.streams = Append(@, out.emitted)]
           /\ IF out.raised
              THEN /\ pc' = "stream_failed"
                   /\ error' = "TypeError"
                   /\ disk' = saved
              ELSE /\ pc' = "done"
                   /\ error' = error
                   /\ disk' = WriteFile(saved, final_path("sandbox"), <<to_dict(sandbox)>>)
    /\ UNCHANGED <<cfg, query, state, iters, chain, sandbox, provider_calls,
                   list_tools_calls, trace_calls, dump_file, hist, turn_log, parked,
                   reasoning_graph, save_pc>>

StreamedNext ==
    \/ /\ NoRunInProgress
       /\ \E q \in TurnQueries : \E scores \in ScoresFor(reasoning_graph, q) :
             StreamedRequest(q, scores)
    \/ BuildSystemPrompt
    \/ \E text \in TurnTexts :
          \/ IterFinalAnswer(text)
          \/ IterFinalizeNudge(text)
          \/ IterJustificationNudge(text)
          \/ IterDuplicate(text)
          \/ \E behaviour \in JustifyBehaviours : IterExecuteTool(text, behaviour)
    \/ MaxItersExceeded
    \/ StreamMessages

StreamedSpec == StreamedInit /\ [][StreamedNext]_vars

-----------------------------------------------------------------------------
(* C39 *)

\* the messages the controller appended in the turn, the request of the user apart
AppendedInTurn == SelectSeq(chain, LAMBDA m : m.by # "user")

\* C39: for every turn handled by post_chat that completes, every message the
\* controller appended during that turn other than the user's request message is
\* emitted on the response stream, in order; this holds for every sequence of turns on
\* a session, including a turn that repeats the exact query text of an earlier turn of
\* the same topic.
C39_AppendedMessagesEmitted ==
    (probe.fn = "post_chat" /\ pc = "done") => Last(probe.streams) = AppendedInTurn

-----------------------------------------------------------------------------
(* C40 *)

\* the iteration of this step moved the controller from INTERACTIVE to FINALIZING
EntersFinalizing ==
    IterationStep /\ state.mode = "INTERACTIVE" /\ state'.mode = "FINALIZING"

\* C40: under the default CoTConfig (max_iters = 5, max_tool_steps = 5,
\* max_finalize_nudges = 2), whenever the controller enters FINALIZING at least one
\* further model iteration runs before the iteration budget is exhausted, so that a
\* run in FINALIZING can still return a final answer instead of raising.
C40_IterationLeftAfterFinalizing ==
    [][(cfg = DefaultConfig /\ EntersFinalizing) => iters' < cfg.max_iters]_vars

====
